---- MODULE Spec2Model ----
(***************************************************************************)
(* Model of the loopd exporter (loopd2.js, src/unnamed/part_001).          *)
(*                                                                         *)
(* The module holds several specifications over one set of variables:      *)
(*   SpecExpand      the section-expansion driver                          *)
(*                   (expandAllCollapsedSections);                         *)
(*   FairSpecExpand  the same with weak fairness on the driver's timers.   *)
(* A specification leaves the variables of the other parts unchanged.      *)
(***************************************************************************)
EXTENDS Integers, Sequences, FiniteSets, TLC

VARIABLES
    \* ---- expandAllCollapsedSections (part_001:102-376) ----
    epc,            \* position of the driver's callback chain
    operations,     \* let operations (part_001:108)
    attempted,      \* const attempted = new Set() (part_001:104)
    confirmed,      \* const confirmed = new Set() (part_001:105)
    failed,         \* const failed = new Set() (part_001:106)
    toggle,         \* the element expandNext is working on (0: none)
    ariaExpanded,   \* the page: aria-expanded of every toggle element
    pending,        \* the page: click events delivered to `toggle` whose
                    \* handler has not yet updated aria-expanded
    numScrollables, \* scrollables.length (part_001:307)
    scrollIndex,    \* let scrollIndex (part_001:323)
    scrollRemaining,\* scrollHeight - currentScroll, in scroll steps
    attempts,       \* history: how often each element was selected
    dispatched,     \* history: the events tryClick gave the toggle in this
                    \* attempt, and whether the page took each as a click
    \* ---- mdastCleanup applied to a document tree (part_001:1346-1493) ----
    ctree,          \* the tree the cleanup plugin is given / returns
    cpass,          \* how many times the plugin has run on it
    conce,          \* history: the tree after the first run
    \* ---- exportLoopToTar / window.loopd (part_001:1819-1936) ----
    contentFound,   \* the page: findContentElement() finds a root
    imgElements,    \* the page: the img elements under the root, DOM order
    db,             \* IndexedDB store 'images': the keys that hold a blob
    xpc,            \* per export: position in exportLoopToTar
    expandPromise,  \* per export: promise of expandAllCollapsedSections
    imgIndex,       \* per export: position of downloadImages' for-of loop
    urlMap,         \* per export: const urlMap (part_001:414)
    mdast,          \* per export: the cleaned tree given to stringify
    tarIndex,       \* per export: let i of buildTarStreaming's image loop
    tarFiles,       \* per export: the image entries appended to the tar
    fetchCount,     \* history, per export and source: fetch() calls made
    stored,         \* history, per export: sources fetched and then stored
    alerted,        \* per export: alert('Could not find Loop content...') shown
    \* ---- export to Markdown, import by the plugin ----
    rtTree,         \* the cleaned tree given to processor.stringify
    rtMarkdown,     \* content.md
    rtAst,          \* the plugin's parseMarkdown(markdown)
    rtpc,           \* "tree", "serialized", "parsing", "parsed"
    lineIndex,      \* parseMarkdown's i, counted from 1
    consumed,       \* history: per entry of the result, the lines it was made of
    \* ---- convertToMarkdown on one page (part_001:1498-1537) ----
    dom,            \* the content element, with whatever hosts it
    out,            \* domToMdast(element, urlMap, {})
    dpc,            \* "dom", "converted", "cleaned", "markdown"
    \* ---- the terminal interface of the viewer (main.go:168-406) ----
    tui,            \* the model Bubble Tea holds: the last one Update returned
    cmds,           \* messages of the commands Update returned, not yet delivered
    lastMsg,        \* history: the type of the message Update handled last
    spawned,        \* history: the paths of the loadTar goroutines started
    \* ---- the directory watcher (main.go:1477-1532) ----
    wpc,            \* "start", "running", "failed"
    watchPending,   \* pending: path -> time since pending[path] was set
    phase,          \* time since the ticker fired last
    tickDue,        \* a tick waits in ticker.C
    eventsLeft,     \* file events the directory still produces
    eventSince,     \* history: path -> accepted events since the path's last load
    loaded,         \* history: the loadTar calls of the watcher, with those events
    \* ---- the loaded export (main.go:131-142, 1534-1586) ----
    heap,           \* the Content values allocated, by pointer
    currentContent, \* var currentContent *Content: 0 is nil
    loaders,        \* the running loadTar calls
    readers         \* the HTTP handlers that read currentContent

expandVars == <<epc, operations, attempted, confirmed, failed, toggle,
                ariaExpanded, pending, numScrollables, scrollIndex,
                scrollRemaining, attempts, dispatched>>

cleanupVars == <<ctree, cpass, conce>>

exportVars == <<contentFound, imgElements, db, xpc, expandPromise, imgIndex,
                urlMap, mdast, tarIndex, tarFiles, fetchCount, stored, alerted>>

roundVars == <<rtTree, rtMarkdown, rtAst, rtpc, lineIndex, consumed>>

domVars == <<dom, out, dpc>>

tuiVars == <<tui, cmds, lastMsg, spawned>>

watchVars == <<wpc, watchPending, phase, tickDue, eventsLeft, eventSince, loaded>>

contentVars == <<heap, currentContent, loaders, readers>>

viewerVars == <<tuiVars, watchVars, contentVars>>

vars == <<expandVars, cleanupVars, exportVars, roundVars, domVars, viewerVars>>

\* What the actions of one part leave alone.
nonExpandVars == <<cleanupVars, exportVars, roundVars, domVars, viewerVars>>
nonCleanupVars == <<expandVars, exportVars, roundVars, domVars, viewerVars>>
nonExportVars == <<expandVars, cleanupVars, roundVars, domVars, viewerVars>>
nonRoundVars == <<expandVars, cleanupVars, exportVars, domVars, viewerVars>>
nonDomVars == <<expandVars, cleanupVars, exportVars, roundVars, viewerVars>>
nonViewerVars == <<expandVars, cleanupVars, exportVars, roundVars, domVars>>

-----------------------------------------------------------------------------
\* Bounds of the model.
NumToggles == 2       \* toggle elements the page holds at one time
MaxScrollables == 2   \* scrollable regions found by scrollToLoadContent
MaxHeight == 3        \* scroll steps a region needs when it is first read
MaxGrow == 2          \* scroll steps a region can grow by between two reads
MaxInline == 3        \* inline nodes in the paragraph given to the cleanup
MaxImgs == 3          \* img elements under the content root
MaxExportImgs == 2    \* img elements on the pages exported more than once
NumExports == 2       \* the automatic export and the window.loopd() calls
MaxWrappers == 2      \* inline nodes in a paragraph of wrapper nodes
MaxBlocks == 2        \* blocks under the root of a serialized tree

\* Program constants.
maxOperations == 100

Toggles == 1..NumToggles

-----------------------------------------------------------------------------
(***************************************************************************)
(* Text.  A JavaScript string is a sequence of one-character strings.      *)
(***************************************************************************)

LowerLetters == { "a", "b", "c", "d", "e", "f", "g", "h", "i", "j", "k", "l", "m", "n", "o", "p", "q", "r", "s", "t", "u", "v", "w", "x", "y", "z" }
UpperLetters == { "A", "B", "C", "D", "E", "F", "G", "H", "I", "J", "K", "L", "M", "N", "O", "P", "Q", "R", "S", "T", "U", "V", "W", "X", "Y", "Z" }
Digits == { "0", "1", "2", "3", "4", "5", "6", "7", "8", "9" }

\* String.prototype.toLowerCase, one character.
LowerChar(c) ==
    CASE c = "A" -> "a"
      [] c = "B" -> "b"
      [] c = "C" -> "c"
      [] c = "D" -> "d"
      [] c = "E" -> "e"
      [] c = "F" -> "f"
      [] c = "G" -> "g"
      [] c = "H" -> "h"
      [] c = "I" -> "i"
      [] c = "J" -> "j"
      [] c = "K" -> "k"
      [] c = "L" -> "l"
      [] c = "M" -> "m"
      [] c = "N" -> "n"
      [] c = "O" -> "o"
      [] c = "P" -> "p"
      [] c = "Q" -> "q"
      [] c = "R" -> "r"
      [] c = "S" -> "s"
      [] c = "T" -> "t"
      [] c = "U" -> "u"
      [] c = "V" -> "v"
      [] c = "W" -> "w"
      [] c = "X" -> "x"
      [] c = "Y" -> "y"
      [] c = "Z" -> "z"
      [] OTHER -> c

toLowerCase(s) == [i \in 1..Len(s) |-> LowerChar(s[i])]

\* \s of a JavaScript regular expression (the characters the model uses).
WhiteSpace == { " ", "\n", "\t" }
\* [a-zA-Z_]
WordStart == LowerLetters \cup UpperLetters \cup { "_" }
\* [\w-]
WordDash == WordStart \cup Digits \cup { "-" }

\* The least index k >= i of s with s[k] outside S (Len(s) + 1: none): where a
\* greedy S* that starts at i stops.
SkipIn(s, i, S) ==
    LET stops == { k \in i..Len(s) : s[k] \notin S }
    IN  IF stops = {} THEN Len(s) + 1
        ELSE CHOOSE k \in stops : \A m \in stops : k <= m

\* The least index k >= i of s with s[k] = c (Len(s) + 1: none): where [^c]*
\* that starts at i stops.
IndexOfFrom(s, i, c) ==
    LET hits == { k \in i..Len(s) : s[k] = c }
    IN  IF hits = {} THEN Len(s) + 1
        ELSE CHOOSE k \in hits : \A m \in hits : k <= m

\* s holds the literal lit at index i.
HasAt(s, i, lit) ==
    /\ i >= 1
    /\ i + Len(lit) - 1 <= Len(s)
    /\ SubSeq(s, i, i + Len(lit) - 1) = lit

\* String.prototype.trim.
trim(s) ==
    LET first == SkipIn(s, 1, WhiteSpace)
        lasts == { k \in 1..Len(s) : s[k] \notin WhiteSpace }
    IN  IF first > Len(s) THEN <<>>
        ELSE SubSeq(s, first, CHOOSE k \in lasts : \A m \in lasts : k >= m)

MediaLit == <<"@", "m", "e", "d", "i", "a">>
KeyframesLit == <<"@", "k", "e", "y", "f", "r", "a", "m", "e", "s">>
FontFaceLit == <<"@", "f", "o", "n", "t", "-", "f", "a", "c", "e">>

\* The property names of the last of the CSS_PATTERNS (part_001:1330).
CssProperties ==
    { <<"d", "i", "s", "p", "l", "a", "y">>,
      <<"p", "o", "s", "i", "t", "i", "o", "n">>,
      <<"m", "a", "r", "g", "i", "n">>,
      <<"p", "a", "d", "d", "i", "n", "g">>,
      <<"f", "o", "n", "t", "-", "s", "i", "z", "e">>,
      <<"c", "o", "l", "o", "r">>,
      <<"b", "a", "c", "k", "g", "r", "o", "u", "n", "d">>,
      <<"b", "o", "r", "d", "e", "r">>,
      <<"w", "i", "d", "t", "h">>,
      <<"h", "e", "i", "g", "h", "t">> }

\* CSS_PATTERNS (part_001:1324-1331).  MatchEnd(pat, s, i) is the index of the
\* last character of the match of pattern pat that starts at index i of s, 0
\* when the pattern does not match there.
AtRuleEnd(s, i, lit) ==
    \* lit [^{]* \{ [\s\S]*? \} \s* \}
    IF ~HasAt(s, i, lit) THEN 0
    ELSE LET open == IndexOfFrom(s, i + Len(lit), "{")
             ends == { q \in (open + 2)..Len(s) :
                         /\ s[q] = "}"
                         /\ \E p \in (open + 1)..(q - 1) :
                              /\ s[p] = "}"
                              /\ \A k \in (p + 1)..(q - 1) : s[k] \in WhiteSpace }
         IN  IF open > Len(s) \/ ends = {} THEN 0
             ELSE CHOOSE q \in ends : \A m \in ends : q <= m

FontFaceEnd(s, i) ==
    \* @font-face \s* \{ [^}]* \}
    IF ~HasAt(s, i, FontFaceLit) THEN 0
    ELSE LET open == SkipIn(s, i + Len(FontFaceLit), WhiteSpace)
             close == IndexOfFrom(s, open + 1, "}")
         IN  IF open > Len(s) \/ s[open] # "{" \/ close > Len(s) THEN 0
             ELSE close

SelectorRuleEnd(s, i, sigil) ==
    \* sigil [a-zA-Z_] [\w-]* \s* \{ [^}]* \}      (sigil: "." or "#")
    IF ~(i + 1 <= Len(s) /\ s[i] = sigil /\ s[i + 1] \in WordStart) THEN 0
    ELSE LET open == SkipIn(s, SkipIn(s, i + 2, WordDash), WhiteSpace)
             close == IndexOfFrom(s, open + 1, "}")
         IN  IF open > Len(s) \/ s[open] # "{" \/ close > Len(s) THEN 0
             ELSE close

DeclarationBlockEnd(s, i) ==
    \* \{ [^}]* (?:display|...|height) \s* : [^}]* \}
    IF ~(i <= Len(s) /\ s[i] = "{") THEN 0
    ELSE LET close == IndexOfFrom(s, i + 1, "}")
         IN  IF close > Len(s) THEN 0
             ELSE IF \E a \in (i + 1)..(close - 1) : \E kw \in CssProperties :
                       /\ HasAt(s, a, kw)
                       /\ LET colon == SkipIn(s, a + Len(kw), WhiteSpace)
                          IN  colon < close /\ s[colon] = ":"
                  THEN close
                  ELSE 0

NumCssPatterns == 6

MatchEnd(pat, s, i) ==
    CASE pat = 1 -> AtRuleEnd(s, i, MediaLit)
      [] pat = 2 -> AtRuleEnd(s, i, KeyframesLit)
      [] pat = 3 -> FontFaceEnd(s, i)
      [] pat = 4 -> SelectorRuleEnd(s, i, ".")
      [] pat = 5 -> SelectorRuleEnd(s, i, "#")
      [] OTHER   -> DeclarationBlockEnd(s, i)

\* String.prototype.replace(pattern, '') with a global pattern: the matches
\* are found left to right and the search goes on after each match.
RECURSIVE ReplaceFrom(_, _, _)
ReplaceFrom(s, i, pat) ==
    LET starts == { k \in i..Len(s) : MatchEnd(pat, s, k) > 0 }
        first == CHOOSE k \in starts : \A m \in starts : k <= m
    IN  IF starts = {} THEN SubSeq(s, i, Len(s))
        ELSE SubSeq(s, i, first - 1) \o ReplaceFrom(s, MatchEnd(pat, s, first) + 1, pat)

RECURSIVE StripPatterns(_, _)
StripPatterns(s, pat) ==
    IF pat > NumCssPatterns THEN s
    ELSE StripPatterns(ReplaceFrom(s, 1, pat), pat + 1)

\* stripCss (part_001:1333-1341).
stripCss(text) == IF text = <<>> THEN text ELSE StripPatterns(text, 1)

\* value.replace(/  +/g, ' ') (part_001:1372).
CollapseSpaces(s) ==
    LET kept == SelectSeq([k \in 1..Len(s) |-> k],
                          LAMBDA k : ~(s[k] = " " /\ k < Len(s) /\ s[k + 1] = " "))
    IN  [j \in 1..Len(kept) |-> s[kept[j]]]

\* The names of LANG_LABELS (part_001:1405), lower case.
LangLabels ==
    { <<"s", "h", "e", "l", "l">>,
      <<"p", "o", "w", "e", "r", "s", "h", "e", "l", "l">>,
      <<"b", "a", "s", "h">>,
      <<"j", "a", "v", "a", "s", "c", "r", "i", "p", "t">>,
      <<"t", "y", "p", "e", "s", "c", "r", "i", "p", "t">>,
      <<"p", "y", "t", "h", "o", "n">>,
      <<"j", "s", "o", "n">>,
      <<"h", "t", "m", "l">>,
      <<"c", "s", "s">>,
      <<"s", "q", "l">>,
      <<"c", "#">>,
      <<"j", "a", "v", "a">>,
      <<"g", "o">>,
      <<"r", "u", "s", "t">>,
      <<"r", "u", "b", "y">>,
      <<"p", "h", "p">>,
      <<"k", "o", "t", "l", "i", "n">>,
      <<"s", "w", "i", "f", "t">>,
      <<"y", "a", "m", "l">>,
      <<"x", "m", "l">>,
      <<"m", "a", "r", "k", "d", "o", "w", "n">>,
      <<"t", "e", "x", "t">> }

LANG_LABELS(s) == toLowerCase(s) \in LangLabels

ShowMoreLit == <<"s", "h", "o", "w", " ", "m", "o", "r", "e", " ", "l", "i", "n", "e", "s">>

\* /Show more lines/i.test(s)
ShowMoreLines(s) ==
    \E i \in 1..Len(s) : HasAt(toLowerCase(s), i, ShowMoreLit)

-----------------------------------------------------------------------------
(***************************************************************************)
(* Document tree (mdast).  A node is a record with a type; text values are *)
(* character sequences; a code node without language has lang = <<>>       *)
(* (null and '' are both falsy wherever the code reads lang).              *)
(*                                                                         *)
(* URLs.  An image source is a record [scheme, name, ext]; the url         *)
(* 'images/' + x is [scheme |-> "images/", file |-> x]; the empty string   *)
(* is EmptyUrl.                                                            *)
(***************************************************************************)

TextNode(v) == [type |-> "text", value |-> v]
InlineCodeNode(v) == [type |-> "inlineCode", value |-> v]
StrongNode(ch) == [type |-> "strong", children |-> ch]
EmphasisNode(ch) == [type |-> "emphasis", children |-> ch]
DeleteNode(ch) == [type |-> "delete", children |-> ch]
LinkNode(u, ch) == [type |-> "link", url |-> u, children |-> ch]
ImageNode(u, a) == [type |-> "image", url |-> u, alt |-> a]
BreakNode == [type |-> "break"]
ParagraphNode(ch) == [type |-> "paragraph", children |-> ch]
HeadingNode(d, ch) == [type |-> "heading", depth |-> d, children |-> ch]
CodeNode(l, v) == [type |-> "code", lang |-> l, value |-> v]
BlockquoteNode(ch) == [type |-> "blockquote", children |-> ch]
RootNode(ch) == [type |-> "root", children |-> ch]

HasChildren(n) == "children" \in DOMAIN n

EmptyUrl == [scheme |-> ""]
LocalUrl(x) == [scheme |-> "images/", file |-> x]

\* url.startsWith('data:')
StartsWithData(u) == u.scheme = "data"

\* urlMap[key] of the plain object urlMap (part_001:414): the stored filename,
\* for a key naming a property of Object.prototype that inherited property,
\* otherwise undefined.
Undefined == [undefined |-> TRUE]
IsProtoName(key) == "name" \in DOMAIN key /\ key.scheme = "rel" /\ key.name = "toString"
Lookup(um, key) ==
    IF key \in DOMAIN um THEN um[key]
    ELSE IF IsProtoName(key) THEN [inherited |-> key.name]
    ELSE Undefined

(***************************************************************************)
(* mdastCleanup (part_001:1346-1493), pass by pass.  visit and remove are  *)
(* unist-util-visit@5 and unist-util-remove@4 (part_001:23-24): visit      *)
(* calls the visitor on every node of the given type in preorder; remove   *)
(* drops every node the test accepts and, cascading, every parent all of   *)
(* whose children were dropped, but never the tree it was given.           *)
(***************************************************************************)

\* visit(tree, 'text', ...) (part_001:1349-1353)
RECURSIVE StripCssTexts(_)
StripCssTexts(n) ==
    IF n.type = "text"
    THEN IF n.value # <<>> THEN [n EXCEPT !.value = stripCss(@)] ELSE n
    ELSE IF HasChildren(n)
    THEN [n EXCEPT !.children = [i \in 1..Len(@) |-> StripCssTexts(@[i])]]
    ELSE n

\* mergeTextNodes (part_001:1356-1376)
RECURSIVE mergeTextNodes(_)
RECURSIVE MergeFrom(_, _, _)
MergeFrom(ch, i, merged) ==
    IF i > Len(ch) THEN merged
    ELSE LET child == ch[i]
         IN  IF /\ child.type = "text"
                /\ merged # <<>>
                /\ merged[Len(merged)].type = "text"
             THEN MergeFrom(ch, i + 1,
                     [merged EXCEPT ![Len(merged)].value = @ \o child.value])
             ELSE MergeFrom(ch, i + 1,
                     Append(merged, IF HasChildren(child)
                                    THEN mergeTextNodes(child) ELSE child))

mergeTextNodes(parent) ==
    IF ~HasChildren(parent) THEN parent
    ELSE LET merged == MergeFrom(parent.children, 1, <<>>)
         IN  [parent EXCEPT !.children =
                [i \in 1..Len(merged) |->
                    IF merged[i].type = "text" /\ merged[i].value # <<>>
                    THEN [merged[i] EXCEPT !.value = CollapseSpaces(@)]
                    ELSE merged[i]]]

\* ensureInlineSpacing (part_001:1380-1399): the loop from index i on.
SpacedTypes == { "inlineCode", "link", "strong", "emphasis", "delete" }
NoSpaceAfter == WhiteSpace \cup { "(", "[", "{" }
NoSpaceBefore == WhiteSpace \cup { ".", ",", ";", ":", "!", "?", ")", "]", "}" }

RECURSIVE SpacingFrom(_, _)
SpacingFrom(ch, i) ==
    IF i > Len(ch) THEN ch
    ELSE IF ch[i].type \notin SpacedTypes THEN SpacingFrom(ch, i + 1)
    ELSE LET padPrev ==
                 /\ i > 1
                 /\ ch[i - 1].type = "text"
                 /\ ch[i - 1].value # <<>>
                 /\ ch[i - 1].value[Len(ch[i - 1].value)] \notin NoSpaceAfter
             padNext ==
                 /\ i < Len(ch)
                 /\ ch[i + 1].type = "text"
                 /\ ch[i + 1].value # <<>>
                 /\ ch[i + 1].value[1] \notin NoSpaceBefore
             ch1 == IF padPrev
                    THEN [ch EXCEPT ![i - 1].value = @ \o <<" ">>] ELSE ch
             ch2 == IF padNext
                    THEN [ch1 EXCEPT ![i + 1].value = <<" ">> \o @] ELSE ch1
         IN  SpacingFrom(ch2, i + 1)

ensureInlineSpacing(node) ==
    IF ~HasChildren(node) \/ Len(node.children) < 2 THEN node
    ELSE [node EXCEPT !.children = SpacingFrom(@, 1)]

\* visit(tree, type, ensureInlineSpacing) (part_001:1401-1402)
RECURSIVE VisitSpacing(_, _)
VisitSpacing(n, type) ==
    LET m == IF n.type = type THEN ensureInlineSpacing(n) ELSE n
    IN  IF HasChildren(m)
        THEN [m EXCEPT !.children = [i \in 1..Len(@) |-> VisitSpacing(@[i], type)]]
        ELSE m

\* The scan of a paragraph's children for the pattern language label,
\* inlineCode, "Show more lines" (part_001:1413-1424): the indices found.
RECURSIVE LangScan(_, _, _)
LangScan(kids, i, found) ==
    IF i > Len(kids) THEN found
    ELSE LET k == kids[i]
         IN  IF k.type = "text" /\ LANG_LABELS(trim(k.value))
             THEN LangScan(kids, i + 1, [found EXCEPT !.langIdx = i])
             ELSE IF k.type = "inlineCode" /\ found.langIdx >= 1 /\ found.codeIdx < 1
             THEN LangScan(kids, i + 1, [found EXCEPT !.codeIdx = i])
             ELSE IF k.type = "text" /\ ShowMoreLines(k.value)
             THEN LangScan(kids, i + 1, [found EXCEPT !.showMoreIdx = i])
             ELSE LangScan(kids, i + 1, found)

\* The rewrite of one child of root (part_001:1408-1439).
LangRewriteChild(child) ==
    IF child.type # "paragraph" THEN child
    ELSE LET kids == child.children
             f == LangScan(kids, 1, [langIdx |-> 0, codeIdx |-> 0, showMoreIdx |-> 0])
         IN  IF f.langIdx >= 1 /\ f.codeIdx >= 1 /\ f.codeIdx > f.langIdx
             THEN CodeNode(toLowerCase(trim(kids[f.langIdx].value)),
                           kids[f.codeIdx].value)
             ELSE child

\* visit(tree, 'root', ...) (part_001:1406-1440)
LangRewrite(tree) ==
    [tree EXCEPT !.children = [i \in 1..Len(@) |-> LangRewriteChild(@[i])]]

\* visit(tree, 'code', ...) (part_001:1443-1450)
RECURSIVE StripCssCode(_)
StripCssCode(n) ==
    IF n.type = "code"
    THEN IF n.value # <<>> /\ n.lang = <<>>
         THEN LET stripped == stripCss(n.value)
              IN  IF stripped # n.value /\ trim(stripped) = <<>>
                  THEN [n EXCEPT !.value = <<>>] ELSE n
         ELSE n
    ELSE IF HasChildren(n)
    THEN [n EXCEPT !.children = [i \in 1..Len(@) |-> StripCssCode(@[i])]]
    ELSE n

\* visit(tree, 'image', ...) (part_001:1453-1461)
RECURSIVE FixImageUrls(_, _)
FixImageUrls(um, n) ==
    IF n.type = "image"
    THEN IF StartsWithData(n.url)
         THEN IF Lookup(um, n.url) # Undefined
              THEN [n EXCEPT !.url = LocalUrl(Lookup(um, n.url))]
              ELSE [n EXCEPT !.url = EmptyUrl]
         ELSE n
    ELSE IF HasChildren(n)
    THEN [n EXCEPT !.children = [i \in 1..Len(@) |-> FixImageUrls(um, @[i])]]
    ELSE n

\* The test given to remove (part_001:1464-1474).
\* A test that does not know the inline wrappers.
IsEmptyBlockNode(node) ==
    \/ node.type = "paragraph" /\ node.children = <<>>
    \/ node.type = "code" /\ trim(node.value) = <<>>
    \/ node.type = "image" /\ node.url = EmptyUrl

IsEmptyNode(node) ==
    \/ node.type = "paragraph" /\ node.children = <<>>
    \/ node.type = "code" /\ trim(node.value) = <<>>
    \/ node.type = "image" /\ node.url = EmptyUrl
    \/ node.type \in { "strong", "emphasis", "delete" } /\ node.children = <<>>

\* remove(tree, test), unist-util-remove@4: the nodes that stay, as a
\* sequence of zero or one node.
RECURSIVE RemovePreorder(_, _)
RECURSIVE RemoveChildren(_, _)
RemoveChildren(ch, i) ==
    IF i > Len(ch) THEN <<>>
    ELSE RemovePreorder(ch[i], FALSE) \o RemoveChildren(ch, i + 1)

RemovePreorder(node, isTree) ==
    IF ~isTree /\ IsEmptyNode(node) THEN <<>>
    ELSE IF HasChildren(node) /\ node.children # <<>>
    THEN LET kept == RemoveChildren(node.children, 1)
         IN  IF ~isTree /\ kept = <<>> THEN <<>>
             ELSE << [node EXCEPT !.children = kept] >>
    ELSE <<node>>

RemoveEmptyNodes(tree) == RemovePreorder(tree, TRUE)[1]

\* visit(tree, 'root', ...) (part_001:1477-1489)
IsBlankParagraph(child) ==
    /\ child.type = "paragraph"
    /\ Len(child.children) = 1
    /\ child.children[1].type = "text"
    /\ trim(child.children[1].value) = <<>>

DropBlankParagraphs(tree) ==
    [tree EXCEPT !.children = SelectSeq(@, LAMBDA c : ~IsBlankParagraph(c))]

\* mdastCleanup(urlMap)(tree) (part_001:1346-1493)
mdastCleanup(um, tree) ==
    LET t1 == StripCssTexts(tree)
        t2 == mergeTextNodes(t1)
        t3 == VisitSpacing(VisitSpacing(t2, "paragraph"), "heading")
        t4 == LangRewrite(t3)
        t5 == StripCssCode(t4)
        t6 == FixImageUrls(um, t5)
        t7 == RemoveEmptyNodes(t6)
    IN  DropBlankParagraphs(t7)

-----------------------------------------------------------------------------
(***************************************************************************)
(* The cleanup plugin run on trees of the shape convertToMarkdown builds   *)
(* (part_001:1498-1531): root = wrapInParagraph(domToMdast(...)), so every *)
(* child of root is a block node and every paragraph holds a non-empty run *)
(* of inline nodes; text values are whitespace-normalised and non-empty    *)
(* (part_001:559-565); strong, emphasis and link nodes have children       *)
(* (part_001:937-995); code values are non-blank (part_001:640-750).       *)
(***************************************************************************)

\* Text values a page can hold.
PageTexts ==
    { <<"a">>,
      <<" ">>,
      <<".">>,
      <<".", "a", "{">>,
      <<"}">>,
      <<".", "a", ".", "b", "{", "}", "{", "}">>,
      <<"G", "o">>,
      <<"S", "h", "o", "w", " ", "m", "o", "r", "e", " ", "l", "i", "n", "e", "s">> }

SampleLink == [scheme |-> "http", name |-> "x", ext |-> "none"]
SampleImage == LocalUrl([n |-> 0, ext |-> "png"])

\* Inline nodes domToMdast emits.
InlineNodes ==
    { TextNode(v) : v \in PageTexts }
    \cup { InlineCodeNode(<<"x">>), InlineCodeNode(<<".", "a", "{", "}">>) }
    \cup { StrongNode(<<TextNode(<<"a">>)>>),
           LinkNode(SampleLink, <<TextNode(<<"a">>)>>),
           ImageNode(SampleImage, "alt") }

\* Runs of 1..MaxInline inline nodes.
InlineRuns == UNION { [1..k -> InlineNodes] : k \in 1..MaxInline }

\* Block nodes other than the paragraph under test.
OtherBlocks ==
    { CodeNode(<<>>, <<".", "a", "{", "}">>),
      HeadingNode(2, <<TextNode(<<"a">>), StrongNode(<<TextNode(<<"b">>)>>)>>),
      BlockquoteNode(<<ParagraphNode(<<TextNode(<<" ">>)>>)>>) }

RawTrees ==
    { RootNode(<<ParagraphNode(r)>>) : r \in InlineRuns }
    \cup { RootNode(<<ParagraphNode(r), b>>) : r \in InlineRuns, b \in OtherBlocks }

\* The image map of an export without images.
NoImages == <<>>

\* const cleaned = cleanupPlugin(mdast) (part_001:1530-1531)
CleanupOnce ==
    /\ cpass = 0
    /\ ctree' = mdastCleanup(NoImages, ctree)
    /\ conce' = ctree'
    /\ cpass' = 1
    /\ UNCHANGED nonCleanupVars

\* The plugin run again on its own result.
CleanupAgain ==
    /\ cpass = 1
    /\ ctree' = mdastCleanup(NoImages, ctree)
    /\ cpass' = 2
    /\ UNCHANGED conce
    /\ UNCHANGED nonCleanupVars

-----------------------------------------------------------------------------
(***************************************************************************)
(* Image collection, conversion of img elements, packaging, and the export *)
(* pipeline.  Export 1 is the automatic export (part_001:1936); the others *)
(* are calls of window.loopd() (part_001:1931-1934).  Every await of the   *)
(* code is a point at which another export's callbacks can run.            *)
(***************************************************************************)

Exports == 1..NumExports

\* The src attributes of the model's pages.  "rel" is a URL relative to the
\* page, which img.src resolves against the page's http origin; "DATA" is a
\* data: URL whose scheme is written in upper case, which img.src (the URL
\* serializer) gives back in lower case.
HttpA == [scheme |-> "http", name |-> "a", ext |-> "png"]
HttpB == [scheme |-> "http", name |-> "b", ext |-> "jpeg"]
RelA == [scheme |-> "rel", name |-> "a", ext |-> "png"]
RelProto == [scheme |-> "rel", name |-> "toString", ext |-> "none"]
DataD == [scheme |-> "data", name |-> "d", ext |-> "jpeg"]
DataUpperD == [scheme |-> "DATA", name |-> "d", ext |-> "jpeg"]
NoSrc == [scheme |-> "", name |-> "", ext |-> "none"]

\* img.src: the attribute resolved to an absolute URL.
Resolve(attr) ==
    CASE attr.scheme = "rel"  -> [attr EXCEPT !.scheme = "http"]
      [] attr.scheme = "DATA" -> [attr EXCEPT !.scheme = "data"]
      [] OTHER                -> attr

Sources == { Resolve(a) : a \in { HttpA, HttpB, RelA, RelProto, DataD, DataUpperD } }

\* getExtensionFromSrc (part_001:382-400).  For a data: URL ext is the image
\* subtype of its media type, otherwise the text after the path's last dot.
KnownExts == { "png", "jpg", "jpeg", "gif", "webp", "svg", "bmp" }
getExtensionFromSrc(src) ==
    IF src.scheme = "data"
    THEN IF src.ext = "none" THEN "png"
         ELSE IF src.ext = "jpeg" THEN "jpg" ELSE src.ext
    ELSE IF src.ext \in KnownExts
         THEN IF src.ext = "jpeg" THEN "jpg" ELSE src.ext
         ELSE "png"

\* An img element: its src attribute, its alt attribute, and what makes it
\* chrome: "small" (under 50px: shouldSkipImage only), "avatar" (an avatar
\* class on the element: shouldSkipImage and shouldSkipElement), "no".
ImgElement(a, c, i) == [attr |-> a, chrome |-> c, alt |-> i]

ImgKinds ==
    { <<HttpA, "no">>, <<HttpA, "small">>, <<HttpB, "no">>, <<HttpB, "avatar">>,
      <<RelA, "no">>, <<RelProto, "no">>, <<DataD, "no">>, <<DataUpperD, "no">>,
      <<NoSrc, "no">> }

\* The alt text of the i-th img element of the page.
AltOf(i) == CASE i = 1 -> "first" [] i = 2 -> "second" [] i = 3 -> "third"
              [] OTHER -> "later"

ImgLists(kinds, maxLen) ==
    UNION { { [i \in 1..k |-> ImgElement(f[i][1], f[i][2], AltOf(i))] :
                f \in [1..k -> kinds] } : k \in 0..maxLen }

\* shouldSkipImage (part_001:402-411)
shouldSkipImage(img) == img.chrome \in { "small", "avatar" }

\* shouldSkipElement (part_001:470-493), for an img element
shouldSkipElement(el) == el.chrome = "avatar"

\* buildTarStreaming's Object.keys(urlMap)[i] (part_001:1690-1696): keys are
\* kept in insertion order, and the n-th key inserted got the number n - 1.
KeyAt(um, i) == CHOOSE k \in DOMAIN um : um[k].n = i - 1

\* An img rule that never consults the image map: the src attribute is
\* emitted as written unless it is a data: url.
ImgToMdastVerbatim(um, el) ==
    LET src == el.attr
    IN  IF shouldSkipElement(el) \/ src = NoSrc THEN <<>>
        ELSE IF StartsWithData(src) THEN <<>>
        ELSE << ImageNode(src, el.alt) >>

\* domToMdast for an img element (part_001:574-576, 894-921)
ImgToMdast(um, el) ==
    LET src == IF el.attr # NoSrc THEN el.attr ELSE Resolve(el.attr)
    IN  IF shouldSkipElement(el) THEN <<>>
        ELSE IF src = NoSrc THEN <<>>
        ELSE IF Lookup(um, src) # Undefined
        THEN << ImageNode(LocalUrl(Lookup(um, src)), el.alt) >>
        ELSE IF StartsWithData(src) THEN <<>>
        ELSE << ImageNode(src, el.alt) >>

\* processChildren (part_001:1060-1066) over the img elements from index i
RECURSIVE processChildren(_, _, _)
processChildren(um, els, i) ==
    IF i > Len(els) THEN <<>>
    ELSE ImgToMdast(um, els[i]) \o processChildren(um, els, i + 1)

\* wrapInParagraph (part_001:1112-1137)
BlockTypes == { "paragraph", "heading", "code", "blockquote", "list", "table",
                "thematicBreak" }
RECURSIVE WrapFrom(_, _, _, _)
WrapFrom(nodes, i, result, inlineBuffer) ==
    LET flushed == IF inlineBuffer # <<>>
                   THEN Append(result, ParagraphNode(inlineBuffer))
                   ELSE result
    IN  IF i > Len(nodes) THEN flushed
        ELSE IF nodes[i].type \in BlockTypes
        THEN WrapFrom(nodes, i + 1, Append(flushed, nodes[i]), <<>>)
        ELSE WrapFrom(nodes, i + 1, result, Append(inlineBuffer, nodes[i]))

wrapInParagraph(nodes) == WrapFrom(nodes, 1, <<>>, <<>>)

\* convertToMarkdown up to stringify (part_001:1498-1531)
convertToMarkdown(um, els) ==
    mdastCleanup(um, RootNode(wrapInParagraph(processChildren(um, els, 1))))

\* The image nodes of a tree, in document order.
RECURSIVE ImageNodes(_)
RECURSIVE ImageNodesOfSeq(_, _)
ImageNodesOfSeq(ch, i) ==
    IF i > Len(ch) THEN <<>>
    ELSE ImageNodes(ch[i]) \o ImageNodesOfSeq(ch, i + 1)
ImageNodes(n) ==
    IF n.type = "image" THEN <<n>>
    ELSE IF HasChildren(n) THEN ImageNodesOfSeq(n.children, 1)
    ELSE <<>>

InFlight(e) == xpc[e] \notin { "idle", "aborted", "done" }

\* window.loopd(): await clearDB(), then exportLoopToTar (part_001:1931-1934)
InvokeLoopd(e) ==
    /\ e # 1
    /\ xpc[e] = "idle"
    /\ db' = {}
    /\ xpc' = [xpc EXCEPT ![e] = "start"]
    /\ UNCHANGED <<alerted, contentFound, imgElements, expandPromise, imgIndex, urlMap,
                   mdast, tarIndex, tarFiles, fetchCount, stored>>
    /\ UNCHANGED nonExportVars

\* An export that goes on to the expansion whatever findContentElement found.
StartExportUnchecked(e) ==
    /\ xpc[e] = "start"
    /\ xpc' = [xpc EXCEPT ![e] = "awaitExpand"]
    /\ expandPromise' = [expandPromise EXCEPT ![e] = "pending"]
    /\ UNCHANGED <<alerted, contentFound, imgElements, db, imgIndex, urlMap, mdast,
                   tarIndex, tarFiles, fetchCount, stored>>
    /\ UNCHANGED nonExportVars

\* exportLoopToTar up to the await of the expansion (part_001:1819-1835):
\* without a content element, the alert and the return.
StartExport(e) ==
    /\ xpc[e] = "start"
    /\ IF ~contentFound
       THEN /\ xpc' = [xpc EXCEPT ![e] = "aborted"]
            /\ alerted' = [alerted EXCEPT ![e] = TRUE]
            /\ UNCHANGED expandPromise
       ELSE /\ xpc' = [xpc EXCEPT ![e] = "awaitExpand"]
            /\ expandPromise' = [expandPromise EXCEPT ![e] = "pending"]
            /\ UNCHANGED alerted
    /\ UNCHANGED <<contentFound, imgElements, db, imgIndex, urlMap, mdast,
                   tarIndex, tarFiles, fetchCount, stored>>
    /\ UNCHANGED nonExportVars

\* The expansion driver calls resolve() (part_001:227, 236, 258)
ExpansionResolves(e) ==
    /\ expandPromise[e] = "pending"
    /\ expandPromise' = [expandPromise EXCEPT ![e] = "resolved"]
    /\ UNCHANGED <<alerted, contentFound, imgElements, db, xpc, imgIndex, urlMap,
                   mdast, tarIndex, tarFiles, fetchCount, stored>>
    /\ UNCHANGED nonExportVars

\* collectImages with the expansion not awaited.
CollectImagesEarly(e) ==
    /\ xpc[e] = "awaitExpand"
    /\ xpc' = [xpc EXCEPT ![e] = "download"]
    /\ imgIndex' = [imgIndex EXCEPT ![e] = 1]
    /\ urlMap' = [urlMap EXCEPT ![e] = <<>>]
    /\ UNCHANGED <<alerted, contentFound, imgElements, db, expandPromise, mdast,
                   tarIndex, tarFiles, fetchCount, stored>>
    /\ UNCHANGED nonExportVars

\* The await of the expansion returns; collectImages; downloadImages is
\* called (part_001:1835-1856, 413-415)
CollectImages(e) ==
    /\ xpc[e] = "awaitExpand"
    /\ expandPromise[e] = "resolved"
    /\ xpc' = [xpc EXCEPT ![e] = "download"]
    /\ imgIndex' = [imgIndex EXCEPT ![e] = 1]
    /\ urlMap' = [urlMap EXCEPT ![e] = <<>>]
    /\ UNCHANGED <<alerted, contentFound, imgElements, db, expandPromise, mdast,
                   tarIndex, tarFiles, fetchCount, stored>>
    /\ UNCHANGED nonExportVars

\* downloadImages: the head of the loop up to fetch() (part_001:417-435), or
\* return urlMap (part_001:452)
DownloadNext(e) ==
    /\ xpc[e] = "download"
    /\ IF imgIndex[e] > Len(imgElements)
       THEN /\ xpc' = [xpc EXCEPT ![e] = "convert"]
            /\ UNCHANGED <<imgIndex, fetchCount>>
       ELSE LET img == imgElements[imgIndex[e]]
                src == Resolve(img.attr)
            IN  IF src = NoSrc \/ Lookup(urlMap[e], src) # Undefined
                   \/ shouldSkipImage(img)
                THEN /\ imgIndex' = [imgIndex EXCEPT ![e] = @ + 1]
                     /\ UNCHANGED <<xpc, fetchCount>>
                ELSE /\ xpc' = [xpc EXCEPT ![e] = "fetching"]
                     /\ fetchCount' = [fetchCount EXCEPT ![e][src] = @ + 1]
                     /\ UNCHANGED imgIndex
    /\ UNCHANGED <<alerted, contentFound, imgElements, db, expandPromise, urlMap,
                   mdast, tarIndex, tarFiles, stored>>
    /\ UNCHANGED nonExportVars

\* What fetch() and response.blob() can end with (part_001:426-441).
FetchOutcomes(src) ==
    IF src.scheme = "data" THEN { "ok", "error" }
    ELSE { "ok", "httpError", "timeout", "error" }

\* downloadImages: the fetch settles; on success the filename is assigned and
\* storeImage is called (part_001:428-446), otherwise the catch block runs
\* (part_001:447-449)
FetchSettles(e) ==
    /\ xpc[e] = "fetching"
    /\ LET src == Resolve(imgElements[imgIndex[e]].attr)
       IN  \E outcome \in FetchOutcomes(src) :
             IF outcome = "ok"
             THEN /\ urlMap' = [urlMap EXCEPT ![e] =
                        [k \in DOMAIN @ \cup {src} |->
                            IF k = src
                            THEN [n |-> Cardinality(DOMAIN @),
                                  ext |-> getExtensionFromSrc(src)]
                            ELSE @[k]]]
                  /\ xpc' = [xpc EXCEPT ![e] = "storing"]
                  /\ UNCHANGED imgIndex
             ELSE /\ imgIndex' = [imgIndex EXCEPT ![e] = @ + 1]
                  /\ xpc' = [xpc EXCEPT ![e] = "download"]
                  /\ UNCHANGED urlMap
    /\ UNCHANGED <<alerted, contentFound, imgElements, db, expandPromise, mdast,
                   tarIndex, tarFiles, fetchCount, stored>>
    /\ UNCHANGED nonExportVars

\* storeImage settles (part_001:50-57, 446-449): the put succeeded, or its
\* request failed and the rejection is caught.
StoreSettles(e) ==
    /\ xpc[e] = "storing"
    /\ LET src == Resolve(imgElements[imgIndex[e]].attr)
       IN  \E ok \in BOOLEAN :
             IF ok
             THEN /\ db' = db \cup {src}
                  /\ stored' = [stored EXCEPT ![e] = @ \cup {src}]
             ELSE UNCHANGED <<db, stored>>
    /\ imgIndex' = [imgIndex EXCEPT ![e] = @ + 1]
    /\ xpc' = [xpc EXCEPT ![e] = "download"]
    /\ UNCHANGED <<alerted, contentFound, imgElements, expandPromise, urlMap, mdast,
                   tarIndex, tarFiles, fetchCount>>
    /\ UNCHANGED nonExportVars

\* convertToMarkdown; buildTarStreaming up to its image loop
\* (part_001:1860-1863, 1645-1693)
Convert(e) ==
    /\ xpc[e] = "convert"
    /\ mdast' = [mdast EXCEPT ![e] = convertToMarkdown(urlMap[e], imgElements)]
    /\ tarIndex' = [tarIndex EXCEPT ![e] = 1]
    /\ tarFiles' = [tarFiles EXCEPT ![e] = {}]
    /\ xpc' = [xpc EXCEPT ![e] = "tar"]
    /\ UNCHANGED <<alerted, contentFound, imgElements, db, expandPromise, imgIndex,
                   urlMap, fetchCount, stored>>
    /\ UNCHANGED nonExportVars

\* buildTarStreaming: one turn of the image loop, getImage included, or the
\* end of the loop, the download of the tar and the call of clearDB
\* (part_001:1695-1710, 1865-1917)
TarNext(e) ==
    /\ xpc[e] = "tar"
    /\ IF tarIndex[e] > Cardinality(DOMAIN urlMap[e])
       THEN /\ xpc' = [xpc EXCEPT ![e] = "clearDB"]
            /\ UNCHANGED <<tarIndex, tarFiles>>
       ELSE LET url == KeyAt(urlMap[e], tarIndex[e])
            IN  /\ tarFiles' = [tarFiles EXCEPT ![e] =
                        IF url \in db THEN @ \cup { urlMap[e][url] } ELSE @]
                /\ tarIndex' = [tarIndex EXCEPT ![e] = @ + 1]
                /\ UNCHANGED xpc
    /\ UNCHANGED <<alerted, contentFound, imgElements, db, expandPromise, imgIndex,
                   urlMap, mdast, fetchCount, stored>>
    /\ UNCHANGED nonExportVars

\* await clearDB() (part_001:1917-1918)
ClearDB(e) ==
    /\ xpc[e] = "clearDB"
    /\ db' = {}
    /\ xpc' = [xpc EXCEPT ![e] = "done"]
    /\ UNCHANGED <<alerted, contentFound, imgElements, expandPromise, imgIndex, urlMap,
                   mdast, tarIndex, tarFiles, fetchCount, stored>>
    /\ UNCHANGED nonExportVars

ExportStep(e) ==
    \/ StartExport(e)
    \/ ExpansionResolves(e)
    \/ CollectImages(e)
    \/ DownloadNext(e)
    \/ FetchSettles(e)
    \/ StoreSettles(e)
    \/ Convert(e)
    \/ TarNext(e)
    \/ ClearDB(e)

-----------------------------------------------------------------------------
(***************************************************************************)
(* Section-expansion driver.                                               *)
(*                                                                         *)
(* An element's expandId (getElementId) is modelled by the element itself: *)
(* the id is written to the element's dataset on first use and read back   *)
(* from there afterwards.  A toggle the page mounts anew is a new element  *)
(* without an expandId; the id of the element it replaces can no longer be *)
(* read from any element and is dropped from the three sets.               *)
(***************************************************************************)

\* className / role of the element in slot t.  Slot numbers are DOM order.
ToggleKind(t) ==
    CASE t % 3 = 1 -> "collapseButtonContainer"
      [] t % 3 = 2 -> "collapseRoleButton"
      [] OTHER     -> "collapseMenuButton"

getElementId(t) == t

\* findCollapsedToggles (part_001:117-166): the elements, in DOM order, that
\* match the primary or the fallback rule, are collapsed, and whose id is
\* neither confirmed nor failed.
IsCollapsedToggle(t) ==
    LET primary  == /\ ToggleKind(t) = "collapseButtonContainer"
                    /\ ariaExpanded[t] = "false"
                    /\ getElementId(t) \notin confirmed
                    /\ getElementId(t) \notin failed
        fallback == /\ ariaExpanded[t] = "false"
                    /\ ToggleKind(t) = "collapseRoleButton"
                    /\ getElementId(t) \notin confirmed
                    /\ getElementId(t) \notin failed
    IN  primary \/ fallback

findCollapsedToggles == { t \in Toggles : IsCollapsedToggle(t) }

\* The first element of `collapsed` (DOM order) whose id was not attempted;
\* 0 when there is none (part_001:240-247).
FirstUnattempted(collapsed) ==
    LET cand == { t \in collapsed : getElementId(t) \notin attempted }
    IN  IF cand = {} THEN 0
        ELSE CHOOSE t \in cand : \A u \in cand : t <= u

\* scrollToLoadContent (part_001:305-369): collects the scrollable regions.
scrollToLoadContent ==
    /\ UNCHANGED nonExpandVars
    /\ UNCHANGED dispatched
    /\ epc = "scrollToLoadContent"
    /\ \E n \in 0..MaxScrollables :
         /\ numScrollables' = n
         /\ epc' = IF n = 0 THEN "expandNext" ELSE "scrollNextContainer"
    /\ UNCHANGED <<operations, attempted, confirmed, failed, toggle,
                   ariaExpanded, pending, scrollIndex, scrollRemaining,
                   attempts>>

\* scrollNextContainer (part_001:325-361): next region, or done after 500ms.
scrollNextContainer ==
    /\ UNCHANGED nonExpandVars
    /\ UNCHANGED dispatched
    /\ epc = "scrollNextContainer"
    /\ IF scrollIndex >= numScrollables
       THEN /\ epc' = "expandNext"
            /\ UNCHANGED <<scrollIndex, scrollRemaining>>
       ELSE /\ scrollIndex' = scrollIndex + 1
            /\ \E h \in 1..MaxHeight : scrollRemaining' = h
            /\ epc' = "scrollNext"
    /\ UNCHANGED <<operations, attempted, confirmed, failed, toggle,
                   ariaExpanded, pending, numScrollables, attempts>>

\* scrollNext (part_001:337-358): one scroll step.  The region's scrollHeight
\* is read again after every step (part_001:356) and the page may have grown
\* in between.
scrollNext ==
    /\ UNCHANGED nonExpandVars
    /\ UNCHANGED dispatched
    /\ epc = "scrollNext"
    /\ IF scrollRemaining <= 0
       THEN /\ epc' = "scrollNextContainer"
            /\ UNCHANGED scrollRemaining
       ELSE /\ \E g \in 0..MaxGrow :
                 /\ scrollRemaining - 1 + g <= MaxHeight
                 /\ scrollRemaining' = scrollRemaining - 1 + g
            /\ epc' = "scrollNext"
    /\ UNCHANGED <<operations, attempted, confirmed, failed, toggle,
                   ariaExpanded, pending, numScrollables, scrollIndex,
                   attempts>>

\* expandNext with a selection that consults none of the three sets: the
\* first collapsed toggle in DOM order is taken again and again.
expandNextRetry ==
    /\ UNCHANGED nonExpandVars
    /\ dispatched' = <<>>
    /\ epc = "expandNext"
    /\ operations' = operations + 1
    /\ LET collapsed == { t \in Toggles :
                            /\ ToggleKind(t) # "collapseMenuButton"
                            /\ ariaExpanded[t] = "false" }
       IN  IF operations + 1 > maxOperations \/ collapsed = {}
           THEN /\ epc' = "finishing"
                /\ UNCHANGED <<attempted, toggle, attempts>>
           ELSE LET t == CHOOSE u \in collapsed : \A v \in collapsed : u <= v
                IN  /\ attempted' = attempted \cup {getElementId(t)}
                    /\ toggle' = t
                    /\ attempts' = [attempts EXCEPT ![t] = @ + 1]
                    /\ epc' = "tryClick"
    /\ pending' = 0
    /\ UNCHANGED <<failed, confirmed, ariaExpanded, numScrollables,
                   scrollIndex, scrollRemaining>>

\* expandNext up to the call of tryClick (part_001:221-280).
expandNext ==
    /\ UNCHANGED nonExpandVars
    /\ dispatched' = <<>>
    /\ epc = "expandNext"
    /\ operations' = operations + 1
    /\ LET collapsed == findCollapsedToggles
           t == FirstUnattempted(collapsed)
       IN  IF operations + 1 > maxOperations \/ collapsed = {}
           THEN /\ epc' = "finishing"
                /\ UNCHANGED <<attempted, failed, toggle, attempts>>
           ELSE IF t = 0
           THEN /\ failed' = failed \cup
                      { getElementId(u) : u \in
                          { v \in collapsed :
                              /\ getElementId(v) \notin failed
                              /\ getElementId(v) \notin confirmed } }
                /\ epc' = "finishing"
                /\ UNCHANGED <<attempted, toggle, attempts>>
           ELSE /\ attempted' = attempted \cup {getElementId(t)}
                /\ toggle' = t
                /\ attempts' = [attempts EXCEPT ![t] = @ + 1]
                /\ epc' = "tryClick"
                /\ UNCHANGED failed
    /\ pending' = 0
    /\ UNCHANGED <<confirmed, ariaExpanded, numScrollables, scrollIndex,
                   scrollRemaining>>

\* A click event reaches the page: its handler will toggle the section, or
\* the page ignores the event.
Deliver == { pending, pending + 1 }

\* An event given to the toggle, and whether the page took it as a click
\* that will toggle the section.
Event(name, taken) == [event |-> name, taken |-> taken]

\* tryClick (part_001:168-191): mouseenter, mouseover, mousedown, and 30ms
\* later mouseup and click.
tryClick ==
    /\ UNCHANGED nonExpandVars
    /\ epc = "tryClick"
    /\ pending' \in Deliver
    /\ dispatched' = << Event("mouseenter", FALSE), Event("mouseover", FALSE),
                        Event("mousedown", FALSE), Event("mouseup", FALSE),
                        Event("click", pending' > pending) >>
    /\ epc' = "nativeClick"
    /\ UNCHANGED <<operations, attempted, confirmed, failed, toggle,
                   ariaExpanded, numScrollables, scrollIndex,
                   scrollRemaining, attempts>>

\* tryClick, 50ms later (part_001:193-195): el.click() unless expanded.
nativeClick ==
    /\ UNCHANGED nonExpandVars
    /\ epc = "nativeClick"
    /\ IF ariaExpanded[toggle] = "true"
       THEN /\ epc' = "verify"
            /\ UNCHANGED <<pending, dispatched>>
       ELSE /\ pending' \in Deliver
            /\ dispatched' = Append(dispatched, Event("el.click", pending' > pending))
            /\ epc' = "reactClick"
    /\ UNCHANGED <<operations, attempted, confirmed, failed, toggle,
                   ariaExpanded, numScrollables, scrollIndex,
                   scrollRemaining, attempts>>

\* tryClick, 100ms later (part_001:197-216): the element's React onClick
\* unless expanded.
reactClick ==
    /\ UNCHANGED nonExpandVars
    /\ epc = "reactClick"
    /\ IF ariaExpanded[toggle] = "true"
       THEN UNCHANGED <<pending, dispatched>>
       ELSE /\ pending' \in Deliver
            /\ dispatched' = IF pending' > pending
                             THEN Append(dispatched, Event("onClick", TRUE))
                             ELSE dispatched
    /\ epc' = "verify"
    /\ UNCHANGED <<operations, attempted, confirmed, failed, toggle,
                   ariaExpanded, numScrollables, scrollIndex,
                   scrollRemaining, attempts>>

\* expandNext after the 800ms settle wait (part_001:284-294).
verify ==
    /\ UNCHANGED nonExpandVars
    /\ UNCHANGED dispatched
    /\ epc = "verify"
    /\ IF ariaExpanded[toggle] = "true"
       THEN /\ confirmed' = confirmed \cup {getElementId(toggle)}
            /\ UNCHANGED failed
       ELSE /\ failed' = failed \cup {getElementId(toggle)}
            /\ UNCHANGED confirmed
    /\ epc' = "expandNext"
    /\ UNCHANGED <<operations, attempted, toggle, ariaExpanded, pending,
                   numScrollables, scrollIndex, scrollRemaining, attempts>>

\* The 500ms wait before resolve() (part_001:226-227, 235-236, 257-258).
finishing ==
    /\ UNCHANGED nonExpandVars
    /\ UNCHANGED dispatched
    /\ epc = "finishing"
    /\ epc' = "resolved"
    /\ UNCHANGED <<operations, attempted, confirmed, failed, toggle,
                   ariaExpanded, pending, numScrollables, scrollIndex,
                   scrollRemaining, attempts>>

\* The page handles a delivered click: the section's state flips.
PageHandleClick ==
    /\ UNCHANGED nonExpandVars
    /\ UNCHANGED dispatched
    /\ pending > 0
    /\ toggle # 0
    /\ pending' = pending - 1
    /\ ariaExpanded' = [ariaExpanded EXCEPT ![toggle] =
                            IF @ = "true" THEN "false" ELSE "true"]
    /\ UNCHANGED <<epc, operations, attempted, confirmed, failed, toggle,
                   numScrollables, scrollIndex, scrollRemaining, attempts>>

\* The page collapses an expanded section by itself.
PageCollapse(t) ==
    /\ UNCHANGED nonExpandVars
    /\ UNCHANGED dispatched
    /\ epc # "resolved"
    /\ ariaExpanded[t] = "true"
    /\ ariaExpanded' = [ariaExpanded EXCEPT ![t] = "false"]
    /\ UNCHANGED <<epc, operations, attempted, confirmed, failed, toggle,
                   pending, numScrollables, scrollIndex, scrollRemaining,
                   attempts>>

\* The page mounts a new collapsed toggle element in slot t (content that an
\* expansion or a scroll brings into the DOM).
PageMount(t) ==
    /\ UNCHANGED nonExpandVars
    /\ UNCHANGED dispatched
    /\ epc \in {"scrollNext", "expandNext"}
    /\ getElementId(t) \in attempted
    /\ ariaExpanded' = [ariaExpanded EXCEPT ![t] = "false"]
    /\ attempted' = attempted \ {getElementId(t)}
    /\ confirmed' = confirmed \ {getElementId(t)}
    /\ failed' = failed \ {getElementId(t)}
    /\ attempts' = [attempts EXCEPT ![t] = 0]
    /\ toggle' = IF toggle = t THEN 0 ELSE toggle
    /\ UNCHANGED <<epc, operations, pending, numScrollables, scrollIndex,
                   scrollRemaining>>

DriverStep ==
    \/ scrollToLoadContent
    \/ scrollNextContainer
    \/ scrollNext
    \/ expandNext
    \/ tryClick
    \/ nativeClick
    \/ reactClick
    \/ verify
    \/ finishing

PageStep ==
    \/ PageHandleClick
    \/ \E t \in Toggles : PageCollapse(t)
    \/ \E t \in Toggles : PageMount(t)

-----------------------------------------------------------------------------
(***************************************************************************)
(* Specifications.                                                         *)
(***************************************************************************)

\* The parts a specification does not run.
TuiIdle ==
    /\ tui = [mode |-> "normal"]
    /\ cmds = <<>>
    /\ lastMsg = "none"
    /\ spawned = <<>>

WatchIdle ==
    /\ wpc = "start"
    /\ watchPending = [p \in {} |-> 0]
    /\ phase = 0
    /\ tickDue = FALSE
    /\ eventsLeft = 0
    /\ eventSince = [p \in {} |-> 0]
    /\ loaded = <<>>

ContentIdle ==
    /\ heap = <<>>
    /\ currentContent = 0
    /\ loaders = <<>>
    /\ readers = <<>>

ViewerIdle == TuiIdle /\ WatchIdle /\ ContentIdle

DomIdle ==
    /\ dom = [nodeType |-> "none"]
    /\ out = <<>>
    /\ dpc = "idle"

RoundIdle ==
    /\ rtTree = [type |-> "root", children |-> <<>>]
    /\ rtMarkdown = <<>>
    /\ rtAst = <<>>
    /\ lineIndex = 0
    /\ consumed = <<>>
    /\ rtpc = "idle"

CleanupIdle ==
    /\ ctree = RootNode(<<>>)
    /\ cpass = 0
    /\ conce = RootNode(<<>>)

ExportIdle ==
    /\ contentFound = FALSE
    /\ imgElements = <<>>
    /\ db = {}
    /\ xpc = [e \in Exports |-> "idle"]
    /\ expandPromise = [e \in Exports |-> "none"]
    /\ imgIndex = [e \in Exports |-> 0]
    /\ urlMap = [e \in Exports |-> <<>>]
    /\ mdast = [e \in Exports |-> RootNode(<<>>)]
    /\ tarIndex = [e \in Exports |-> 0]
    /\ tarFiles = [e \in Exports |-> {}]
    /\ fetchCount = [e \in Exports |-> [s \in Sources |-> 0]]
    /\ stored = [e \in Exports |-> {}]
    /\ alerted = [e \in Exports |-> FALSE]

ExpandIdle ==
    /\ epc = "idle"
    /\ operations = 0
    /\ attempted = {}
    /\ confirmed = {}
    /\ failed = {}
    /\ toggle = 0
    /\ ariaExpanded = [t \in Toggles |-> "true"]
    /\ pending = 0
    /\ numScrollables = 0
    /\ scrollIndex = 0
    /\ scrollRemaining = 0
    /\ attempts = [t \in Toggles |-> 0]
    /\ dispatched = <<>>

nonViewerIdle == DomIdle /\ RoundIdle /\ CleanupIdle /\ ExportIdle /\ ExpandIdle

InitExpand ==
    /\ DomIdle
    /\ RoundIdle
    /\ CleanupIdle
    /\ ExportIdle
    /\ ViewerIdle
    /\ epc = "scrollToLoadContent"
    /\ operations = 0
    /\ attempted = {}
    /\ confirmed = {}
    /\ failed = {}
    /\ toggle = 0
    /\ ariaExpanded \in [Toggles -> {"false", "true"}]
    /\ pending = 0
    /\ numScrollables = 0
    /\ scrollIndex = 0
    /\ scrollRemaining = 0
    /\ attempts = [t \in Toggles |-> 0]
    /\ dispatched = <<>>

NextExpand == DriverStep \/ PageStep

SpecExpand == InitExpand /\ [][NextExpand]_vars

InitCleanup ==
    /\ DomIdle
    /\ RoundIdle
    /\ ExpandIdle
    /\ ExportIdle
    /\ ViewerIdle
    /\ ctree \in RawTrees
    /\ cpass = 0
    /\ conce = RootNode(<<>>)

NextCleanup == CleanupOnce \/ CleanupAgain

SpecCleanup == InitCleanup /\ [][NextCleanup]_vars

\* The state in which the automatic export is called: initDB and clearDB are
\* done and window.loopd is defined (part_001:1925-1936).
ExportReady ==
    /\ db = {}
    /\ xpc = [e \in Exports |-> IF e = 1 THEN "start" ELSE "idle"]
    /\ expandPromise = [e \in Exports |-> "none"]
    /\ imgIndex = [e \in Exports |-> 0]
    /\ urlMap = [e \in Exports |-> <<>>]
    /\ mdast = [e \in Exports |-> RootNode(<<>>)]
    /\ tarIndex = [e \in Exports |-> 0]
    /\ tarFiles = [e \in Exports |-> {}]
    /\ fetchCount = [e \in Exports |-> [s \in Sources |-> 0]]
    /\ stored = [e \in Exports |-> {}]
    /\ alerted = [e \in Exports |-> FALSE]

\* One export, never re-invoked, over pages with every kind of img element.
InitImages ==
    /\ DomIdle
    /\ RoundIdle
    /\ ExpandIdle
    /\ CleanupIdle
    /\ ViewerIdle
    /\ contentFound \in BOOLEAN
    /\ imgElements \in ImgLists(ImgKinds, MaxImgs)
    /\ ExportReady

NextImages == ExportStep(1)

SpecImages == InitImages /\ [][NextImages]_vars

\* The automatic export and window.loopd() calls the user makes at any time,
\* over pages with plain http images.
InitExport ==
    /\ DomIdle
    /\ RoundIdle
    /\ ExpandIdle
    /\ CleanupIdle
    /\ ViewerIdle
    /\ contentFound \in BOOLEAN
    /\ imgElements \in ImgLists({ <<HttpA, "no">>, <<HttpB, "no">> }, MaxExportImgs)
    /\ ExportReady

NextExport == \E e \in Exports : InvokeLoopd(e) \/ ExportStep(e)

SpecExport == InitExport /\ [][NextExport]_vars

\* Timers set with setTimeout fire: every step of the driver is eventually
\* taken.  The page is under no obligation.
FairSpecExpand == SpecExpand /\ WF_vars(DriverStep)

-----------------------------------------------------------------------------
(***************************************************************************)
(* Claims about the section-expansion driver.                              *)
(***************************************************************************)

\* C1: expandAllCollapsedSections always returns: on any page the promise
\* eventually resolves, and no toggle is attempted once the operation count
\* has passed the hard cap of 100.
C1_AlwaysReturns ==
    /\ <>(epc = "resolved")
    /\ [](epc = "tryClick" => operations <= maxOperations)

\* C2: within one run every toggle element is attempted at most once; an
\* element marked failed is never selected again whatever the page does; and
\* a failed verification hands over to the next expandNext instead of ending
\* the run.
C2_AttemptedAtMostOnce ==
    /\ [](\A t \in Toggles : attempts[t] <= 1)
    /\ [][\A t \in Toggles :
            (getElementId(t) \in failed /\ getElementId(t) \in failed')
                => attempts'[t] = attempts[t]]_vars
    /\ [][(epc = "verify" /\ epc' # "verify"
              /\ ariaExpanded[toggle] # "true")
            => (epc' = "expandNext" /\ getElementId(toggle) \in failed')]_vars

\* C2 witness: a toggle has failed and is still collapsed, and the run has
\* gone on to attempt another toggle.
C2_Witness ==
    \E t \in Toggles :
        /\ getElementId(t) \in failed
        /\ ariaExpanded[t] = "false"
        /\ epc = "verify"
        /\ toggle # t
        /\ attempts[toggle] = 1

-----------------------------------------------------------------------------
(***************************************************************************)
(* Claims about the cleanup pass.                                          *)
(***************************************************************************)

\* C10: the cleanup pass is idempotent: running it on its own result gives
\* the same tree (same nodes, same order, same text values).
C10_CleanupIdempotent == cpass = 2 => ctree = conce


-----------------------------------------------------------------------------
(***************************************************************************)
(* Claims about the export pipeline.                                       *)
(***************************************************************************)

Converted(e) == xpc[e] \in { "tar", "clearDB", "done" }
Returned(e) == xpc[e] \in { "convert", "tar", "clearDB", "done" }

\* C3: in every export the expansion promise has resolved before the first
\* image is fetched and before conversion, and downloadImages has gone
\* through every img element and returned before conversion starts, after
\* which the map given to the conversion no longer changes.
C3_StepsOrdered ==
    /\ [](\A e \in Exports :
            (\E s \in Sources : fetchCount[e][s] > 0)
                => expandPromise[e] = "resolved")
    /\ [](\A e \in Exports :
            Returned(e) => /\ expandPromise[e] = "resolved"
                           /\ imgIndex[e] > Len(imgElements))
    /\ [][\A e \in Exports :
            Returned(e) => /\ urlMap'[e] = urlMap[e]
                           /\ fetchCount'[e] = fetchCount[e]
                           /\ stored'[e] = stored[e]]_vars

\* A second export has fetched and stored an image and has been converted
\* with the image rewritten to its local file.
C3_Witness ==
    /\ xpc[2] = "tar"
    /\ fetchCount[2][HttpA] = 1
    /\ HttpA \in stored[2]
    /\ Len(ImageNodes(mdast[2])) > 0
    /\ ImageNodes(mdast[2])[1].url = LocalUrl(urlMap[2][HttpA])

\* C4: at most one export is in flight at any time, and while an export is
\* between image collection and the end of tar building every image it stored
\* is still in the store.
C4_OneExportInFlight ==
    /\ Cardinality({ e \in Exports : InFlight(e) }) <= 1
    /\ \A e \in Exports :
         xpc[e] \in { "download", "fetching", "storing", "convert", "tar" }
            => stored[e] \subseteq db

\* C5: when downloadImages has returned, the map holds a source exactly when
\* the source was fetched and stored, and every entry has its bytes in the
\* store.
C5_MapIffPersisted ==
    xpc[1] = "convert"
        => /\ DOMAIN urlMap[1] = stored[1]
           /\ DOMAIN urlMap[1] \subseteq db

\* C6: in one run of downloadImages every source is fetched at most once.
C6_FetchedAtMostOnce ==
    \A s \in Sources : fetchCount[1][s] <= 1

\* The first img element, in DOM order, that carries the source and is not
\* excluded by the collector.
Carriers(s) ==
    { i \in 1..Len(imgElements) :
        Resolve(imgElements[i].attr) = s /\ ~shouldSkipImage(imgElements[i]) }
FirstSeen(s) == CHOOSE i \in Carriers(s) : \A j \in Carriers(s) : i <= j

\* C7: when downloadImages has returned, the numbers of the filenames in the
\* map are exactly 0..k-1 for k entries, no two sources share a filename,
\* and the number of each fetched and stored source is the count of the
\* fetched and stored sources first seen before it, so that skipped and
\* failed images consume no number.
C7_DenseFirstSeen ==
    xpc[1] = "convert"
        => LET um == urlMap[1]
           IN  /\ { um[s].n : s \in DOMAIN um } = 0..(Cardinality(DOMAIN um) - 1)
               /\ \A s, t \in DOMAIN um : um[s] = um[t] => s = t
               /\ \A s \in stored[1] :
                    um[s].n = Cardinality({ t \in stored[1] :
                                              FirstSeen(t) < FirstSeen(s) })

\* The image nodes of the tree given to the serializer.
SerializedImages == ImageNodes(mdast[1])
ImageNodeSet == { SerializedImages[i] : i \in 1..Len(SerializedImages) }
MapValues == { urlMap[1][s] : s \in DOMAIN urlMap[1] }

C9_SameKey ==
    Converted(1)
        => \A i \in 1..Len(imgElements) :
             LET el == imgElements[i]
             IN  (~shouldSkipImage(el) /\ Resolve(el.attr) \in DOMAIN urlMap[1])
                    => \E n \in ImageNodeSet :
                         /\ n.alt = el.alt
                         /\ n.url = LocalUrl(urlMap[1][Resolve(el.attr)])


-----------------------------------------------------------------------------
(***************************************************************************)
(* The cleanup of trees that hold strong, emphasis and delete nodes: empty *)
(* ones, ones whose children the cleanup removes, and ones that keep a     *)
(* child.  An image with a data: url that the image map does not know gets *)
(* the url '' (part_001:1453-1461) and is then removed.                    *)
(***************************************************************************)

LostImage == ImageNode(DataD, "lost")

WrapperNodes ==
    { StrongNode(<<>>), EmphasisNode(<<>>), DeleteNode(<<>>),
      StrongNode(<< LostImage >>),
      EmphasisNode(<< StrongNode(<<>>) >>),
      DeleteNode(<< LostImage, TextNode(<<"a">>) >>),
      StrongNode(<< TextNode(<<".", "a", "{", "}">>) >>),
      EmphasisNode(<< TextNode(<<"a">>) >>),
      LinkNode(SampleLink, << DeleteNode(<<>>) >>),
      LinkNode(SampleLink, <<>>),
      TextNode(<<"a">>) }

WrapperRuns == UNION { [1..k -> WrapperNodes] : k \in 1..MaxWrappers }

WrapperTrees ==
    { RootNode(<< ParagraphNode(r) >>) : r \in WrapperRuns }
    \cup { RootNode(<< HeadingNode(2, r) >>) : r \in WrapperRuns }

InitWrappers ==
    /\ DomIdle
    /\ RoundIdle
    /\ ExpandIdle
    /\ ExportIdle
    /\ ViewerIdle
    /\ ctree \in WrapperTrees
    /\ cpass = 0
    /\ conce = RootNode(<<>>)

SpecWrappers == InitWrappers /\ [][NextCleanup]_vars

RECURSIVE NoEmptyWrapper(_)
NoEmptyWrapper(n) ==
    /\ n.type \in { "strong", "emphasis", "delete" } => n.children # <<>>
    /\ HasChildren(n) => \A i \in 1..Len(n.children) : NoEmptyWrapper(n.children[i])

\* C11: after the cleanup no strong, emphasis or delete node of the tree has
\* an empty children sequence.
C11_NoEmptyWrappers == cpass >= 1 => NoEmptyWrapper(ctree)

\* The cleanup has run on a paragraph that held delete[image, text] (every
\* tree of WrapperTrees with this result does): the delete lost its image and
\* kept its text, and any empty or emptied wrapper next to it is gone.
C11_Witness ==
    /\ cpass = 1
    /\ ctree = RootNode(<< ParagraphNode(<< DeleteNode(<< TextNode(<<"a">>) >>) >>) >>)


-----------------------------------------------------------------------------
(***************************************************************************)
(* parseMarkdown of the importer plugin                                    *)
(* (plugins/loopd-markdown-importer/code.js:2854-3035).  A Markdown text   *)
(* is a sequence of characters; "\n" ends a line.                          *)
(***************************************************************************)

\* text.split(sep) from index i on, for a one-character separator
RECURSIVE SplitFrom(_, _, _)
SplitFrom(s, i, sep) ==
    LET k == IndexOfFrom(s, i, sep)
    IN  IF k > Len(s) THEN << SubSeq(s, i, Len(s)) >>
        ELSE << SubSeq(s, i, k - 1) >> \o SplitFrom(s, k + 1, sep)

split(s, sep) == SplitFrom(s, 1, sep)

\* parts.join(sep) from index i on
RECURSIVE JoinFrom(_, _, _)
JoinFrom(parts, i, sep) ==
    IF i > Len(parts) THEN <<>>
    ELSE IF i = Len(parts) THEN parts[i]
    ELSE parts[i] \o sep \o JoinFrom(parts, i + 1, sep)

join(parts, sep) == JoinFrom(parts, 1, sep)

\* s.slice(n)
slice(s, n) == SubSeq(s, n + 1, Len(s))

startsWith(s, lit) == HasAt(s, 1, lit)
endsWith(s, lit) == HasAt(s, Len(s) - Len(lit) + 1, lit)

DigitValue(c) == CHOOSE v \in 0..9 : <<"0", "1", "2", "3", "4", "5", "6", "7", "8", "9">>[v + 1] = c

\* parseInt(digits, 10) of a run of decimal digits
RECURSIVE parseInt(_)
parseInt(ds) ==
    IF ds = <<>> THEN 0
    ELSE 10 * parseInt(SubSeq(ds, 1, Len(ds) - 1)) + DigitValue(ds[Len(ds)])

\* "#" repeated d times and a space
RECURSIVE Hashes(_)
Hashes(d) == IF d = 0 THEN <<>> ELSE <<"#">> \o Hashes(d - 1)
HeadingPrefix(d) == Hashes(d) \o <<" ">>

\* The depth of the first heading branch taken (code.js:2870-2881), 0: none.
HeadingDepth(t) ==
    LET ds == { d \in 1..6 : startsWith(t, HeadingPrefix(d)) }
    IN  IF ds = {} THEN 0 ELSE CHOOSE d \in ds : \A e \in ds : d >= e

HeadingType(d) == <<"h1", "h2", "h3", "h4", "h5", "h6">>[d]

QuoteLit == <<">", " ">>
\* "grave" stands for the one character U+0060.
FenceLit == <<"grave", "grave", "grave">>
\* "middot" stands for the one character U+00B7.
Bullets == { <<"-", " ">>, <<"*", " ">>, <<"middot", " ">> }

\* /^\d+\.\s/.test(t) (code.js:2900)
IsOrderedItem(t) ==
    LET k == SkipIn(t, 1, Digits)
    IN  k > 1 /\ k + 1 <= Len(t) /\ t[k] = "." /\ t[k + 1] \in WhiteSpace

\* isTableLine: the test of code.js:2919 and 2927
IsTableLine(t) == startsWith(t, <<"|">>) /\ endsWith(t, <<"|">>)

\* /^:?-+:?$/.test(c) (code.js:2980)
IsSeparatorCell(c) ==
    LET a == IF startsWith(c, <<":">>) THEN 2 ELSE 1
        b == SkipIn(c, a, {"-"})
    IN  b > a /\ (b = Len(c) + 1 \/ (b = Len(c) /\ c[b] = ":"))

\* trimmed.slice(1, -1)
Inner(t) == SubSeq(t, 2, Len(t) - 1)

\* isTableSeparatorLine (code.js:2972-2982)
isTableSeparatorLine(line) ==
    LET trimmed == trim(line)
        cells == split(Inner(trimmed), "|")
    IN  /\ IsTableLine(trimmed)
        /\ \A i \in 1..Len(cells) : IsSeparatorCell(trim(cells[i]))

\* parseTableAlignments (code.js:2987-2997)
parseTableAlignments(line) ==
    LET cells == split(Inner(trim(line)), "|")
    IN  [i \in 1..Len(cells) |->
            LET c == trim(cells[i])
            IN  IF startsWith(c, <<":">>) /\ endsWith(c, <<":">>) THEN "center"
                ELSE IF endsWith(c, <<":">>) THEN "right"
                ELSE "left"]

\* parseTableRow (code.js:3002-3035): the loop from index i of content with
\* the cells finished so far and the cell being read
RECURSIVE RowFrom(_, _, _, _)
RowFrom(content, i, cells, current) ==
    IF i > Len(content) THEN Append(cells, trim(current))
    ELSE IF content[i] = "|"
    THEN RowFrom(content, i + 1, Append(cells, trim(current)), <<>>)
    ELSE IF content[i] = "\\" /\ i + 1 <= Len(content)
                              /\ content[i + 1] \in { "|", "\\" }
    THEN RowFrom(content, i + 2, cells, Append(current, content[i + 1]))
    ELSE RowFrom(content, i + 1, cells, Append(current, content[i]))

parseTableRow(line) == RowFrom(Inner(trim(line)), 1, <<>>, <<>>)


\* /^!\[([^\]]*)\]\(([^)]+)\)$/ (code.js:2954-2956): where the alt text ends,
\* 0 when the line is no image
ImageAltEnd(t) ==
    LET k == IndexOfFrom(t, 3, "]")
    IN  IF /\ startsWith(t, <<"!", "[">>)
           /\ HasAt(t, k, <<"]", "(">>)
           /\ IndexOfFrom(t, k + 2, ")") = Len(t)
           /\ Len(t) > k + 2
        THEN k ELSE 0

\* The first index j >= i with keep(lines[j]) false (Len(lines) + 1: none).
RunEnd(lines, i, keep(_)) ==
    LET stops == { j \in i..Len(lines) : ~keep(lines[j]) }
    IN  IF stops = {} THEN Len(lines) + 1
        ELSE CHOOSE j \in stops : \A m \in stops : j <= m

\* The table loop (code.js:2925-2942) over lines[i..j-1]: rows, alignments
\* and hasHeader so far
RECURSIVE TableFrom(_, _, _, _)
TableFrom(lines, i, j, acc) ==
    IF i >= j THEN acc
    ELSE IF isTableSeparatorLine(trim(lines[i]))
    THEN TableFrom(lines, i + 1, j,
            [acc EXCEPT !.hasHeader = Len(acc.rows) > 0,
                        !.alignments = parseTableAlignments(trim(lines[i]))])
    ELSE TableFrom(lines, i + 1, j,
            [acc EXCEPT !.rows = Append(@, parseTableRow(trim(lines[i])))])

\* parseMarkdown: the while loop from line i on (code.js:2858-2964)
RECURSIVE ParseFrom(_, _)
ParseFrom(lines, i) ==
    IF i > Len(lines) THEN <<>>
    ELSE
    LET t == trim(lines[i])
        d == HeadingDepth(t)
    IN  IF t = <<>> THEN ParseFrom(lines, i + 1)
        ELSE IF d > 0
        THEN << [type |-> HeadingType(d), content |-> trim(slice(t, d + 1))] >>
             \o ParseFrom(lines, i + 1)
        ELSE IF startsWith(t, QuoteLit)
        THEN LET j == RunEnd(lines, i, LAMBDA l : startsWith(trim(l), QuoteLit))
                 quoteLines == [k \in 1..(j - i) |->
                                    trim(slice(trim(lines[i + k - 1]), 2))]
             IN  << [type |-> "blockquote", content |-> join(quoteLines, <<"\n">>)] >>
                 \o ParseFrom(lines, j)
        ELSE IF \E b \in Bullets : startsWith(t, b)
        THEN << [type |-> "li", content |-> trim(slice(t, 2))] >>
             \o ParseFrom(lines, i + 1)
        ELSE IF IsOrderedItem(t)
        THEN LET k == SkipIn(t, 1, Digits)
             IN  << [type |-> "ol", index |-> parseInt(SubSeq(t, 1, k - 1)),
                     content |-> trim(slice(t, k + 1))] >>
                 \o ParseFrom(lines, i + 1)
        ELSE IF startsWith(t, FenceLit)
        THEN LET j == RunEnd(lines, i + 1,
                             LAMBDA l : ~startsWith(trim(l), FenceLit))
                 lang == trim(slice(t, 3))
             IN  << [type |-> "code",
                     content |-> join(SubSeq(lines, i + 1, j - 1), <<"\n">>),
                     language |-> lang] >>
                 \o ParseFrom(lines, j + 1)
        ELSE IF IsTableLine(t)
        THEN LET j == RunEnd(lines, i, LAMBDA l : IsTableLine(trim(l)))
                 table == TableFrom(lines, i, j,
                             [type |-> "table", rows |-> <<>>,
                              alignments |-> <<>>, hasHeader |-> FALSE])
             IN  (IF Len(table.rows) > 0 THEN <<table>> ELSE <<>>)
                 \o ParseFrom(lines, j)
        ELSE IF ImageAltEnd(t) > 0
        THEN << [type |-> "image",
                 alt |-> SubSeq(t, 3, ImageAltEnd(t) - 1),
                 path |-> SubSeq(t, ImageAltEnd(t) + 2, Len(t) - 1)] >>
             \o ParseFrom(lines, i + 1)
        ELSE << [type |-> "p", content |-> t] >> \o ParseFrom(lines, i + 1)

\* parseMarkdown (code.js:2854-2967)
parseMarkdown(text) == ParseFrom(split(text, "\n"), 1)


-----------------------------------------------------------------------------
(***************************************************************************)
(* processor.stringify(cleaned) (part_001:1517-1534): remark-stringify@11  *)
(* with bullet '-', emphasis '*', strong '**', fences, listItemIndent      *)
(* 'one', for trees of paragraphs, headings, blockquotes, lists and fenced *)
(* code whose texts are letters (nothing to escape).  A block is rendered  *)
(* as its sequence of lines.                                               *)
(***************************************************************************)

ListNode(o, ch) == [type |-> "list", ordered |-> o, spread |-> FALSE, children |-> ch]
ListItemNode(c, ch) == [type |-> "listItem", checked |-> c, spread |-> FALSE, children |-> ch]

\* The text of a text node as phrasing content: an opening bracket is
\* unsafe there and gets a backslash (the other unsafe characters of
\* mdast-util-to-markdown are not among the model's texts).
RECURSIVE EscapeText(_)
EscapeText(s) ==
    LET hits == { k \in 1..Len(s) : s[k] = "[" }
        first == CHOOSE k \in hits : \A m \in hits : k <= m
    IN  IF hits = {} THEN s
        ELSE SubSeq(s, 1, first - 1) \o <<"\\", "[">>
             \o EscapeText(SubSeq(s, first + 1, Len(s)))

RECURSIVE Phrasing(_, _)
Phrasing(ch, i) ==
    IF i > Len(ch) THEN <<>>
    ELSE (CASE ch[i].type = "text" -> EscapeText(ch[i].value)
            [] ch[i].type = "strong" ->
                 <<"*", "*">> \o Phrasing(ch[i].children, 1) \o <<"*", "*">>
            [] ch[i].type = "emphasis" ->
                 <<"*">> \o Phrasing(ch[i].children, 1) \o <<"*">>)
         \o Phrasing(ch, i + 1)

\* The lines between two sibling blocks: none in a list or list item that is
\* not spread, a comment between two lists of the same kind, a blank line
\* otherwise.
Between(parent, left, right) ==
    IF parent.type \in { "list", "listItem" } THEN <<>>
    ELSE IF left.type = "list" /\ right.type = "list" /\ left.ordered = right.ordered
    THEN << <<>>, <<"<", "!", "-", "-", "-", "-", ">">>, <<>> >>
    ELSE << <<>> >>

Indent(lines, first, rest) ==
    [k \in 1..Len(lines) |->
        IF k = 1 THEN first \o lines[k]
        ELSE IF lines[k] = <<>> THEN <<>>
        ELSE rest \o lines[k]]

\* The marker of the k-th item of a list.
Marker(list, k) ==
    IF list.ordered
    THEN << <<"1", "2", "3", "4", "5", "6", "7", "8", "9">>[k], ".", " " >>
    ELSE << "-", " " >>

Spaces(n) == [k \in 1..n |-> " "]

\* A table as remark-gfm writes it (part_001:1518): every cell padded to
\* the width of its column, at least three; the delimiter row carries the
\* colons of the column's alignment.
Dashes(n) == [k \in 1..n |-> "-"]

DelimiterCell(align, w) ==
    CASE align = "center" -> <<":">> \o Dashes(w - 2) \o <<":">>
      [] align = "right" -> Dashes(w - 1) \o <<":">>
      [] align = "left" -> <<":">> \o Dashes(w - 1)
      [] OTHER -> Dashes(w)

TableLine(cells) == <<"|", " ">> \o join(cells, <<" ", "|", " ">>) \o <<" ", "|">>

TableLines(table) ==
    LET text(r, c) == Phrasing(table.children[r].children[c].children, 1)
        cols == 1..Len(table.children[1].children)
        width(c) == CHOOSE w \in 3..50 :
                       /\ \A r \in 1..Len(table.children) : Len(text(r, c)) <= w
                       /\ w = 3 \/ \E r \in 1..Len(table.children) : Len(text(r, c)) = w
        row(r) == TableLine([c \in cols |->
                      text(r, c) \o Spaces(width(c) - Len(text(r, c)))])
        delimiter == TableLine([c \in cols |-> DelimiterCell(table.align[c], width(c))])
    IN  << row(1), delimiter >> \o [r \in 1..(Len(table.children) - 1) |-> row(r + 1)]

RECURSIVE BlockLines(_, _, _)
RECURSIVE Flow(_, _)
Flow(parent, i) ==
    LET ch == parent.children
    IN  IF i > Len(ch) THEN <<>>
        ELSE BlockLines(ch[i], parent, i)
             \o (IF i < Len(ch) THEN Between(parent, ch[i], ch[i + 1]) ELSE <<>>)
             \o Flow(parent, i + 1)

BlockLines(n, parent, k) ==
    CASE n.type = "paragraph" -> << Phrasing(n.children, 1) >>
      [] n.type = "heading" ->
            << HeadingPrefix(n.depth) \o Phrasing(n.children, 1) >>
      [] n.type = "code" ->
            << FenceLit \o n.lang >> \o split(n.value, "\n") \o << FenceLit >>
      [] n.type = "blockquote" ->
            LET inner == Flow(n, 1)
            IN  [j \in 1..Len(inner) |->
                    IF inner[j] = <<>> THEN <<">">> ELSE QuoteLit \o inner[j]]
      [] n.type = "list" -> Flow(n, 1)
      [] n.type = "table" -> TableLines(n)
      [] n.type = "listItem" ->
            Indent(Flow(n, 1), Marker(parent, k), Spaces(Len(Marker(parent, k))))

stringify(tree) == join(Flow(tree, 1), <<"\n">>) \o <<"\n">>

\* Blocks the converter produces (part_001:604-635, 764-806, 1026-1050,
\* 1205-1215, 864-866, 740-752).
TextA == TextNode(<<"a">>)
TextB == TextNode(<<"b">>)
ItemOf(ch) == ListItemNode("null", ch)

RoundBlocks ==
    { ParagraphNode(<<TextA>>),
      ParagraphNode(<<TextA, StrongNode(<<TextB>>)>>),
      HeadingNode(1, <<TextA>>),
      HeadingNode(3, <<TextB>>),
      BlockquoteNode(<< ParagraphNode(<<TextA>>) >>),
      BlockquoteNode(<< ParagraphNode(<<TextA>>), ParagraphNode(<<TextB>>) >>),
      CodeNode(<<"g", "o">>, <<"a", "\n", " ", "b">>),
      CodeNode(<<>>, <<"a">>),
      ListNode(FALSE, << ItemOf(<< ParagraphNode(<<TextA>>) >>),
                         ItemOf(<< ParagraphNode(<<TextB>>) >>) >>),
      ListNode(FALSE, << ItemOf(<< ParagraphNode(<<TextA>>),
                                   ListNode(FALSE, << ItemOf(<< ParagraphNode(<<TextB>>) >>) >>) >>) >>),
      ListNode(TRUE, << ItemOf(<< ParagraphNode(<<TextA>>) >>),
                        ItemOf(<< ParagraphNode(<<TextB>>) >>) >>),
      ListNode(TRUE, << ItemOf(<< ParagraphNode(<<TextA>>),
                                  ListNode(FALSE, << ItemOf(<< ParagraphNode(<<TextB>>) >>) >>) >>) >>) }

RoundTrees ==
    { RootNode(bs) : bs \in UNION { [1..k -> RoundBlocks] : k \in 1..MaxBlocks } }

\* const markdown = processor.stringify(cleaned) (part_001:1534)
Stringify ==
    /\ rtpc = "tree"
    /\ rtMarkdown' = stringify(rtTree)
    /\ rtpc' = "serialized"
    /\ UNCHANGED <<rtTree, rtAst, lineIndex, consumed>>
    /\ UNCHANGED nonRoundVars

\* const ast = parseMarkdown(markdown) (code.js:598)
ParseMarkdown ==
    /\ rtpc = "serialized"
    /\ rtAst' = parseMarkdown(rtMarkdown)
    /\ rtpc' = "parsed"
    /\ UNCHANGED <<rtTree, rtMarkdown, lineIndex, consumed>>
    /\ UNCHANGED nonRoundVars

InitRound ==
    /\ DomIdle
    /\ ExpandIdle
    /\ CleanupIdle
    /\ ExportIdle
    /\ ViewerIdle
    /\ rtTree \in RoundTrees
    /\ rtMarkdown = <<>>
    /\ rtAst = <<>>
    /\ lineIndex = 0
    /\ consumed = <<>>
    /\ rtpc = "tree"

NextRound == Stringify \/ ParseMarkdown

SpecRound == InitRound /\ [][NextRound]_vars

\* C12: serialize(parse(serialize(tree))) = serialize(tree) for every tree
\* the converter produces.  The second serialization is given the parse
\* result and nothing else, so the parse result has to determine the text:
\* every tree whose text parses to the same result has the same text.
C12_RoundTrip ==
    rtpc = "parsed"
        => \A other \in RoundTrees :
             parseMarkdown(stringify(other)) = rtAst
                => stringify(other) = rtMarkdown


-----------------------------------------------------------------------------
(***************************************************************************)
(* The page.  A node is a text node or an element; an element has a lower- *)
(* case tag name, attributes (character sequences, by attribute name), the *)
(* font family of its computed style, the child nodes of its shadow root   *)
(* (none: no shadow root or an empty one) and its child nodes.             *)
(***************************************************************************)

TextDom(v) == [nodeType |-> "text", textContent |-> v]
Element(tag, attrs, ch) ==
    [nodeType |-> "element", tagName |-> tag, attrs |-> attrs,
     fontFamily |-> <<"s", "e", "r", "i", "f">>, shadowRoot |-> <<>>, childNodes |-> ch]
NoAttrs == [class |-> <<>>]

\* el.getAttribute(name) || ''
getAttribute(el, name) ==
    IF name \in DOMAIN el.attrs THEN el.attrs[name] ELSE <<>>

\* getClassName (part_001:462-465)
getClassName(el) == getAttribute(el, "class")

\* getChildren (part_001:498-514)
getChildren(el) == el.shadowRoot \o el.childNodes

\* s.includes(lit)
includes(s, lit) == \E i \in 1..Len(s) : HasAt(s, i, lit)

\* /lit/i.test(s), for a literal in lower case
TestI(s, lit) == includes(toLowerCase(s), lit)

TrueLit == <<"t", "r", "u", "e">>

\* shouldSkipElement (part_001:470-493)
UiClassPatterns ==
    { <<"s", "c", "r", "i", "p", "t", "o", "r", "-", "c", "o", "l", "l", "a", "p", "s", "e", "b", "u", "t", "t", "o", "n">>, <<"s", "c", "r", "i", "p", "t", "o", "r", "-", "b", "l", "o", "c", "k", "-", "c", "o", "m", "m", "a", "n", "d">>, <<"s", "c", "r", "i", "p", "t", "o", "r", "-", "c", "o", "m", "m", "a", "n", "d", "s">>,
      <<"s", "c", "r", "i", "p", "t", "o", "r", "-", "t", "o", "o", "l", "b", "a", "r">>, <<"s", "c", "r", "i", "p", "t", "o", "r", "-", "p", "a", "g", "e", "h", "e", "a", "d", "e", "r">>,
      <<"p", "r", "e", "s", "e", "n", "c", "e">>, <<"a", "v", "a", "t", "a", "r">>, <<"t", "o", "o", "l", "b", "a", "r">>, <<"m", "e", "n", "u">> }
NonContentTags == { "style", "script", "noscript", "meta", "link" }

SkipRule(el) ==
    \/ \E pat \in UiClassPatterns : TestI(getClassName(el), pat)
    \/ el.tagName \in NonContentTags
    \/ getAttribute(el, "aria-hidden") = TrueLit

\* extractText (part_001:519-528)
RECURSIVE extractText(_)
RECURSIVE ExtractTextOf(_, _)
ExtractTextOf(ch, i) ==
    IF i > Len(ch) THEN <<>>
    ELSE extractText(ch[i]) \o ExtractTextOf(ch, i + 1)
extractText(node) ==
    IF node.nodeType = "text" THEN node.textContent
    ELSE IF node.nodeType = "element"
    THEN IF SkipRule(node) THEN <<>> ELSE ExtractTextOf(getChildren(node), 1)
    ELSE <<>>

\* extractCodeText (part_001:533-543)
RECURSIVE extractCodeText(_)
RECURSIVE ExtractCodeTextOf(_, _)
ExtractCodeTextOf(ch, i) ==
    IF i > Len(ch) THEN <<>>
    ELSE extractCodeText(ch[i]) \o ExtractCodeTextOf(ch, i + 1)
extractCodeText(node) ==
    IF node.nodeType = "text" THEN node.textContent
    ELSE IF node.nodeType = "element"
    THEN IF node.tagName = "br" THEN <<"\n">>
         ELSE IF SkipRule(node) THEN <<>>
         ELSE ExtractCodeTextOf(getChildren(node), 1)
    ELSE <<>>

\* document.getElementById(id): the first element of the document tree, in
\* tree order, with that id; shadow trees are not part of the document tree.
\* A sequence of zero or one element.
RECURSIVE ElementsById(_, _)
RECURSIVE ElementsByIdOf(_, _, _)
ElementsByIdOf(ch, i, id) ==
    IF i > Len(ch) THEN <<>>
    ELSE ElementsById(ch[i], id) \o ElementsByIdOf(ch, i + 1, id)
ElementsById(node, id) ==
    IF node.nodeType # "element" THEN <<>>
    ELSE (IF getAttribute(node, "id") = id THEN <<node>> ELSE <<>>)
         \o ElementsByIdOf(node.childNodes, 1, id)

getElementById(doc, id) ==
    IF ElementsById(doc, id) = <<>> THEN <<>> ELSE << ElementsById(doc, id)[1] >>


\* The selectors the converter uses (part_001:724, 847, 1206).
Matches(el, selector) ==
    CASE selector = "code" -> el.tagName = "code"
      [] selector = "input[type=checkbox]" ->
            el.tagName = "input" /\ getAttribute(el, "type") = <<"c", "h", "e", "c", "k", "b", "o", "x">>

\* el.querySelectorAll(selector): the descendants of el, in tree order, that
\* match; shadow trees are not searched.
RECURSIVE querySelectorAll(_, _)
RECURSIVE QuerySelectorOf(_, _, _)
QuerySelectorOf(ch, i, selector) ==
    IF i > Len(ch) THEN <<>>
    ELSE (IF ch[i].nodeType = "element"
          THEN (IF Matches(ch[i], selector) THEN << ch[i] >> ELSE <<>>)
               \o querySelectorAll(ch[i], selector)
          ELSE <<>>)
         \o QuerySelectorOf(ch, i + 1, selector)
querySelectorAll(el, selector) == QuerySelectorOf(el.childNodes, 1, selector)


\* extractCodeBlockText (part_001:1142-1200).  processNode gives back the
\* text it returns and the lines it pushed.
IsLineNumber(node) ==
    TestI(getClassName(node), <<"l", "i", "n", "e", "-", "n", "u", "m", "b", "e", "r">>) \/ TestI(getClassName(node), <<"l", "i", "n", "e", "n", "u", "m", "b", "e", "r">>)
IsBlockLine(node) ==
    \/ node.tagName \in { "p", "div", "pre", "li" }
    \/ TestI(getClassName(node), <<"s", "c", "r", "i", "p", "t", "o", "r", "-", "p", "a", "r", "a", "g", "r", "a", "p", "h">>)
    \/ TestI(getClassName(node), <<"s", "c", "r", "i", "p", "t", "o", "r", "-", "l", "i", "n", "e">>)

RECURSIVE processNode(_)
RECURSIVE ProcessNodes(_, _, _)
ProcessNodes(ch, i, acc) ==
    IF i > Len(ch) THEN acc
    ELSE LET r == processNode(ch[i])
         IN  ProcessNodes(ch, i + 1,
                [content |-> acc.content \o r.content, lines |-> acc.lines \o r.lines])
processNode(node) ==
    IF node.nodeType = "text" THEN [content |-> node.textContent, lines |-> <<>>]
    ELSE IF node.nodeType # "element" THEN [content |-> <<>>, lines |-> <<>>]
    ELSE IF IsLineNumber(node) THEN [content |-> <<>>, lines |-> <<>>]
    ELSE IF node.tagName = "br" THEN [content |-> <<"\n">>, lines |-> <<>>]
    ELSE LET r == ProcessNodes(getChildren(node), 1, [content |-> <<>>, lines |-> <<>>])
         IN  IF IsBlockLine(node) /\ trim(r.content) # <<>>
             THEN [content |-> <<>>, lines |-> Append(r.lines, r.content)]
             ELSE r

RECURSIVE TopLines(_, _)
TopLines(ch, i) ==
    IF i > Len(ch) THEN <<>>
    ELSE LET r == processNode(ch[i])
         IN  r.lines \o (IF trim(r.content) # <<>> THEN << r.content >> ELSE <<>>)
             \o TopLines(ch, i + 1)

extractCodeBlockText(el) ==
    LET lines == TopLines(getChildren(el), 1)
    IN  IF Len(lines) > 0 THEN join(lines, <<"\n">>) ELSE extractText(el)

\* flattenInline (part_001:1073-1107)
InlineTypes == { "text", "inlineCode", "strong", "emphasis", "delete", "link", "image" }
RECURSIVE flattenInline(_, _)
RECURSIVE FlattenFrom(_, _, _)
FlattenFrom(nodes, i, keepBreaks) ==
    IF i > Len(nodes) THEN <<>>
    ELSE LET node == nodes[i]
         IN  (IF node.type = "break"
              THEN (IF keepBreaks THEN <<node>> ELSE <<>>)
              ELSE IF node.type \in InlineTypes THEN <<node>>
              ELSE IF node.type = "code" THEN << InlineCodeNode(node.value) >>
              ELSE IF HasChildren(node) THEN flattenInline(node.children, keepBreaks)
              ELSE IF "value" \in DOMAIN node /\ node.value # <<>>
              THEN << TextNode(node.value) >>
              ELSE <<>>)
             \o FlattenFrom(nodes, i + 1, keepBreaks)
flattenInline(nodes, keepBreaks) == FlattenFrom(nodes, 1, keepBreaks)

\* detectCalloutType (part_001:1303-1319): typeMap in insertion order
typeMap ==
    << <<<<"n", "o", "t", "e">>, <<"N", "O", "T", "E">>>>, <<<<"i", "n", "f", "o">>, <<"N", "O", "T", "E">>>>,
       <<<<"t", "i", "p">>, <<"T", "I", "P">>>>, <<<<"h", "i", "n", "t">>, <<"T", "I", "P">>>>, <<<<"s", "u", "c", "c", "e", "s", "s">>, <<"T", "I", "P">>>>,
       <<<<"i", "m", "p", "o", "r", "t", "a", "n", "t">>, <<"I", "M", "P", "O", "R", "T", "A", "N", "T">>>>,
       <<<<"w", "a", "r", "n", "i", "n", "g">>, <<"W", "A", "R", "N", "I", "N", "G">>>>,
       <<<<"c", "a", "u", "t", "i", "o", "n">>, <<"C", "A", "U", "T", "I", "O", "N">>>>, <<<<"d", "a", "n", "g", "e", "r">>, <<"C", "A", "U", "T", "I", "O", "N">>>>, <<<<"e", "r", "r", "o", "r">>, <<"C", "A", "U", "T", "I", "O", "N">>>> >>

\* A detection that looks at the class name only.
detectCalloutTypeByClass(className, el) ==
    LET typeSource == toLowerCase(className)
        found == { k \in 1..Len(typeMap) : includes(typeSource, typeMap[k][1]) }
    IN  IF found = {} THEN <<"N", "O", "T", "E">>
        ELSE typeMap[CHOOSE k \in found : \A m \in found : k <= m][2]

\* detectCalloutType (part_001:1303-1319): the type of the first keyword of
\* typeMap that the class name or the data-type attribute contains.
detectCalloutType(className, el) ==
    LET typeSource == toLowerCase(className \o <<" ">> \o getAttribute(el, "data-type"))
        found == { k \in 1..Len(typeMap) : includes(typeSource, typeMap[k][1]) }
    IN  IF found = {} THEN <<"N", "O", "T", "E">>
        ELSE typeMap[CHOOSE k \in found : \A m \in found : k <= m][2]


-----------------------------------------------------------------------------
(***************************************************************************)
(* domToMdast (part_001:549-1055) and the converters it calls.  doc is the *)
(* document of the element (for getElementById); sibs tells a <br> what    *)
(* follows it in its parent element.                                       *)
(***************************************************************************)

InlineCodeCap == 200
CollapsedCodeCap == 500

NoContext == [preserveWhitespace |-> FALSE, inCode |-> FALSE]
NoParent == [parent |-> FALSE, after |-> <<>>]

\* text.replace(/[\s\n\r]+/g, ' ') (part_001:559)
NormalizeSpace(s) ==
    LET kept == SelectSeq([k \in 1..Len(s) |-> k],
                          LAMBDA k : s[k] \notin WhiteSpace \/ k = 1
                                        \/ s[k - 1] \notin WhiteSpace)
    IN  [j \in 1..Len(kept) |-> IF s[kept[j]] \in WhiteSpace THEN " " ELSE s[kept[j]]]

\* s.split(/\s+/).filter(id => id) (part_001:777)
RECURSIVE Tokens(_)
Tokens(s) ==
    LET a == SkipIn(s, 1, WhiteSpace)
        b == SkipIn(s, a, { c \in { s[k] : k \in 1..Len(s) } : c \notin WhiteSpace })
    IN  IF a > Len(s) THEN <<>>
        ELSE << SubSeq(s, a, b - 1) >> \o Tokens(SubSeq(s, b, Len(s)))

WordChars == WordStart \cup Digits

\* className.match(/language-(\w+)/i)?.[1] || ''
ClassLanguage(className) ==
    LET lower == toLowerCase(className)
        hits == { i \in 1..Len(className) :
                    /\ HasAt(lower, i, <<"l", "a", "n", "g", "u", "a", "g", "e", "-">>)
                    /\ i + 9 <= Len(className)
                    /\ className[i + 9] \in WordChars }
    IN  IF hits = {} THEN <<>>
        ELSE LET i == CHOOSE h \in hits : \A m \in hits : h <= m
             IN  SubSeq(className, i + 9, SkipIn(className, i + 9, WordChars) - 1)

\* el.getAttribute('data-language') || className.match(...)?.[1] || ''
LanguageOf(el) ==
    IF getAttribute(el, "data-language") # <<>> THEN getAttribute(el, "data-language")
    ELSE ClassLanguage(getClassName(el))

\* The sign and digits parseInt reads, as [nan, n] (part_001:621-622).
ParseIntPrefix(s) ==
    LET a == SkipIn(s, 1, WhiteSpace)
        signed == a <= Len(s) /\ s[a] \in { "-", "+" }
        b == IF signed THEN a + 1 ELSE a
        e == SkipIn(s, b, Digits)
    IN  IF e = b THEN [nan |-> TRUE, n |-> 0]
        ELSE [nan |-> FALSE,
              n |-> IF signed /\ s[a] = "-" THEN 0 - parseInt(SubSeq(s, b, e - 1))
                    ELSE parseInt(SubSeq(s, b, e - 1))]

Truthy(v) == ~v.nan /\ v.n # 0

\* className.match(/heading(\d)/i)?.[1]
ClassHeadingDigit(className) ==
    LET lower == toLowerCase(className)
        hits == { i \in 1..Len(className) :
                    /\ HasAt(lower, i, <<"h", "e", "a", "d", "i", "n", "g">>)
                    /\ i + 7 <= Len(className)
                    /\ className[i + 7] \in Digits }
    IN  IF hits = {} THEN <<>>
        ELSE << className[(CHOOSE h \in hits : \A m \in hits : h <= m) + 7] >>

Min(a, b) == IF a <= b THEN a ELSE b
Max(a, b) == IF a >= b THEN a ELSE b

\* A depth taken from the level as it is.
UnclampedDepth(el) ==
    LET a == ParseIntPrefix(getAttribute(el, "aria-level"))
        c == ParseIntPrefix(ClassHeadingDigit(getClassName(el)))
    IN  IF Truthy(a) THEN a.n ELSE IF Truthy(c) THEN c.n ELSE 2

\* level and Math.min(Math.max(level, 1), 6) (part_001:621-632)
HeadingDepthOf(el) ==
    LET a == ParseIntPrefix(getAttribute(el, "aria-level"))
        c == ParseIntPrefix(ClassHeadingDigit(getClassName(el)))
        level == IF Truthy(a) THEN a.n ELSE IF Truthy(c) THEN c.n ELSE 2
    IN  Min(Max(level, 1), 6)

\* isHeading (part_001:616-618)
IsAriaHeading(el) ==
    \/ getAttribute(el, "role") = <<"h", "e", "a", "d", "i", "n", "g">>
    \/ \E pat \in { <<"s", "c", "r", "i", "p", "t", "o", "r", "-", "c", "o", "l", "l", "a", "p", "s", "i", "b", "l", "e", "h", "e", "a", "d", "i", "n", "g">>, <<"s", "c", "r", "i", "p", "t", "o", "r", "-", "h", "e", "a", "d", "i", "n", "g">>, <<"s", "c", "r", "i", "p", "t", "o", "r", "-", "t", "i", "t", "l", "e">> } :
          TestI(getClassName(el), pat)
    \/ includes(getAttribute(el, "data-automation-type"), <<"h", "e", "a", "d", "i", "n", "g">>)

\* hasInlineCodeClass (part_001:661-664)
hasInlineCodeClass(el) ==
    \/ \E pat \in { <<"s", "c", "r", "i", "p", "t", "o", "r", "-", "i", "n", "l", "i", "n", "e", "c", "o", "d", "e">>, <<"i", "n", "l", "i", "n", "e", "-", "c", "o", "d", "e">>, <<"i", "n", "l", "i", "n", "e", "c", "o", "d", "e">>,
                    <<"c", "o", "d", "e", "-", "s", "p", "a", "n">>, <<"c", "o", "d", "e", "s", "p", "a", "n">> } : TestI(getClassName(el), pat)
    \/ includes(toLowerCase(getAttribute(el, "data-automation-type")), <<"c", "o", "d", "e">>)
    \/ includes(toLowerCase(getClassName(el)), <<"m", "o", "n", "o", "s", "p", "a", "c", "e">>)

\* hasCodeStyle (part_001:667-680)
hasCodeStyle(el) ==
    /\ el.tagName \in { "span", "div" }
    /\ \E f \in { <<"m", "o", "n", "o", "s", "p", "a", "c", "e">>, <<"c", "o", "n", "s", "o", "l", "a", "s">>, <<"m", "o", "n", "a", "c", "o">>, <<"c", "o", "u", "r", "i", "e", "r">>, <<"m", "e", "n", "l", "o">> } :
          includes(toLowerCase(el.fontFamily), f)

IsCodeBlockClass(el) ==
    TestI(getClassName(el), <<"s", "c", "r", "i", "p", "t", "o", "r", "-", "c", "o", "d", "e", "b", "l", "o", "c", "k">>) \/ TestI(getClassName(el), <<"s", "c", "r", "i", "p", "t", "o", "r", "-", "c", "o", "d", "e", "-", "e", "d", "i", "t", "o", "r">>)

\* /scriptor-code|code-snippet|collapsed.*code/i (part_001:586)
IsCollapsedCodeClass(el) ==
    LET lower == toLowerCase(getClassName(el))
    IN  \/ includes(lower, <<"s", "c", "r", "i", "p", "t", "o", "r", "-", "c", "o", "d", "e">>)
        \/ includes(lower, <<"c", "o", "d", "e", "-", "s", "n", "i", "p", "p", "e", "t">>)
        \/ \E i \in 1..Len(lower) :
              HasAt(lower, i, <<"c", "o", "l", "l", "a", "p", "s", "e", "d">>) /\ includes(SubSeq(lower, i + 9, Len(lower)), <<"c", "o", "d", "e">>)

IsCalloutClass(el) ==
    \E pat \in { <<"s", "c", "r", "i", "p", "t", "o", "r", "-", "c", "a", "l", "l", "o", "u", "t">>, <<"s", "c", "r", "i", "p", "t", "o", "r", "-", "i", "n", "f", "o", "b", "l", "o", "c", "k">>, <<"s", "c", "r", "i", "p", "t", "o", "r", "-", "h", "i", "g", "h", "l", "i", "g", "h", "t", "b", "l", "o", "c", "k">>,
                 <<"s", "c", "r", "i", "p", "t", "o", "r", "-", "c", "o", "m", "p", "o", "n", "e", "n", "t", "-", "b", "l", "o", "c", "k", "-", "c", "a", "l", "l", "o", "u", "t">>, <<"s", "c", "r", "i", "p", "t", "o", "r", "-", "b", "l", "o", "c", "k", "-", "c", "a", "l", "l", "o", "u", "t">> } :
        TestI(getClassName(el), pat)


\* The alternatives of the language label pattern, in its order (part_001:590).
LangOrder ==
    << <<"s", "h", "e", "l", "l">>, <<"p", "o", "w", "e", "r", "s", "h", "e", "l", "l">>, <<"b", "a", "s", "h">>, <<"j", "a", "v", "a", "s", "c", "r", "i", "p", "t">>, <<"t", "y", "p", "e", "s", "c", "r", "i", "p", "t">>, <<"p", "y", "t", "h", "o", "n">>,
       <<"j", "s", "o", "n">>, <<"h", "t", "m", "l">>, <<"c", "s", "s">>, <<"s", "q", "l">>, <<"c", "#">>, <<"j", "a", "v", "a">>, <<"g", "o">>, <<"r", "u", "s", "t">>, <<"r", "u", "b", "y">>,
       <<"p", "h", "p">>, <<"k", "o", "t", "l", "i", "n">>, <<"s", "w", "i", "f", "t">>, <<"y", "a", "m", "l">>, <<"x", "m", "l">>, <<"m", "a", "r", "k", "d", "o", "w", "n">>, <<"t", "e", "x", "t">> >>

\* showMoreText.replace(/Show more lines/gi, '') (part_001:589)
RECURSIVE RemoveShowMore(_)
RemoveShowMore(s) ==
    LET hits == { k \in 1..Len(s) : HasAt(toLowerCase(s), k, ShowMoreLit) }
        first == CHOOSE k \in hits : \A m \in hits : k <= m
    IN  IF hits = {} THEN s
        ELSE SubSeq(s, 1, first - 1)
             \o RemoveShowMore(SubSeq(s, first + Len(ShowMoreLit), Len(s)))

\* The collapsed code block rule (part_001:586-602): the nodes it returns,
\* none when it does not apply.
CollapsedCode(el) ==
    LET showMoreText == extractText(el)
        textContent == trim(RemoveShowMore(showMoreText))
        labels == { k \in 1..Len(LangOrder) : HasAt(toLowerCase(textContent), 1, LangOrder[k]) }
        k == CHOOSE a \in labels : \A b \in labels : a <= b
        lang == IF labels = {} THEN <<>> ELSE LangOrder[k]
        codeContent == IF labels = {} THEN textContent
                       ELSE trim(SubSeq(textContent, Len(lang) + 1, Len(textContent)))
    IN  IF IsCollapsedCodeClass(el) /\ ShowMoreLines(showMoreText)
           /\ codeContent # <<>> /\ Len(codeContent) < CollapsedCodeCap
        THEN << CodeNode(lang, codeContent) >>
        ELSE <<>>

ThematicBreakNode == [type |-> "thematicBreak"]
TableCellNode(ch) == [type |-> "tableCell", children |-> ch]
TableRowNode(ch) == [type |-> "tableRow", children |-> ch]
TableNode(a, ch) == [type |-> "table", align |-> a, children |-> ch]

\* The code node of a code-like element, if its text makes one
\* (part_001:641-649, 684-692, 741-751).
CodeOf(el, text) == CodeNode(LanguageOf(el), text)

\* The img rule (part_001:894-921) for a src attribute given as text.
DomImage(um, el) ==
    LET src == getAttribute(el, "src")
    IN  IF src = <<>> THEN <<>>
        ELSE IF src \in DOMAIN um
        THEN << [type |-> "image", url |-> <<"i", "m", "a", "g", "e", "s", "/">> \o um[src], alt |-> getAttribute(el, "alt")] >>
        ELSE IF startsWith(src, <<"d", "a", "t", "a", ":">>) THEN <<>>
        ELSE << [type |-> "image", url |-> src, alt |-> getAttribute(el, "alt")] >>

\* title.match(/^(https?:\/\/[^\s\n]+)/i) || title.match(/^([^\s\n]+)/)
\* (part_001:929): both give the run of characters before the first white space.
TitleHref(title) ==
    SubSeq(title, 1,
           SkipIn(title, 1, { c \in { title[k] : k \in 1..Len(title) } : c \notin WhiteSpace }) - 1)

\* hasContentAfter (part_001:1006-1017)
hasContentAfter(after) ==
    \E i \in 1..Len(after) :
        \/ after[i].nodeType = "text" /\ trim(after[i].textContent) # <<>>
        \/ after[i].nodeType = "element" /\ after[i].tagName # "br"

\* inlineChildren after the trailing breaks are popped (part_001:1040-1043)
RECURSIVE PopBreaks(_)
PopBreaks(nodes) ==
    IF nodes # <<>> /\ nodes[Len(nodes)].type = "break"
    THEN PopBreaks(SubSeq(nodes, 1, Len(nodes) - 1))
    ELSE nodes

\* flattenInline(children).length > 0 ? flattenInline(children) : [text]
InlineOr(children, fallback) ==
    IF flattenInline(children, FALSE) # <<>> THEN flattenInline(children, FALSE)
    ELSE << TextNode(fallback) >>

RECURSIVE domToMdast(_, _, _, _, _)
RECURSIVE ChildrenFrom(_, _, _, _, _)
RECURSIVE convertListItem(_, _, _, _)
RECURSIVE OwnedItems(_, _, _, _, _)
RECURSIVE ChildItems(_, _, _, _, _)
RECURSIVE findRows(_, _)
RECURSIVE CellsFrom(_, _, _, _, _)
RECURSIVE RowsFrom(_, _, _, _, _)

\* processChildren (part_001:1060-1066).  A child of a shadow root has no
\* parent element; a child node has its later siblings after it.
ChildrenToMdast(doc, el, um, context) == ChildrenFrom(doc, el, 1, um, context)

ChildrenFrom(doc, el, i, um, context) ==
    LET ch == getChildren(el)
        sibs == IF i <= Len(el.shadowRoot) THEN NoParent
                ELSE [parent |-> TRUE, after |-> SubSeq(ch, i + 1, Len(ch))]
    IN  IF i > Len(ch) THEN <<>>
        ELSE domToMdast(doc, ch[i], sibs, um, context)
             \o ChildrenFrom(doc, el, i + 1, um, context)

\* convertListItem (part_001:1205-1215)
convertListItem(doc, li, um, context) ==
    LET checkbox == querySelectorAll(li, "input[type=checkbox]")
    IN  ListItemNode(IF checkbox = <<>> THEN "null" ELSE "checked" \in DOMAIN checkbox[1].attrs,
                     wrapInParagraph(ChildrenToMdast(doc, li, um, context)))

\* The items an aria-owns attribute names (part_001:776-784)
OwnedItems(doc, itemIds, i, um, context) ==
    IF i > Len(itemIds) THEN <<>>
    ELSE LET itemEl == getElementById(doc, itemIds[i])
         IN  (IF itemEl = <<>> THEN <<>>
              ELSE << convertListItem(doc, itemEl[1], um, context) >>)
             \o OwnedItems(doc, itemIds, i + 1, um, context)

\* The items among the children (part_001:786-796)
ChildItems(doc, ch, i, um, context) ==
    IF i > Len(ch) THEN <<>>
    ELSE (IF /\ ch[i].nodeType = "element"
             /\ (ch[i].tagName = "li" \/ getAttribute(ch[i], "role") = <<"l", "i", "s", "t", "i", "t", "e", "m">>)
          THEN << convertListItem(doc, ch[i], um, context) >>
          ELSE <<>>)
         \o ChildItems(doc, ch, i + 1, um, context)

\* items (part_001:773-797, 816-834)
ListItems(doc, el, um, context) ==
    IF getAttribute(el, "aria-owns") # <<>>
    THEN OwnedItems(doc, Tokens(getAttribute(el, "aria-owns")), 1, um, context)
    ELSE ChildItems(doc, getChildren(el), 1, um, context)

\* findRows (part_001:1225-1240), over the children from index i
findRows(ch, i) ==
    IF i > Len(ch) THEN <<>>
    ELSE (IF ch[i].nodeType # "element" THEN <<>>
          ELSE IF \/ ch[i].tagName = "tr"
                  \/ getAttribute(ch[i], "role") = <<"r", "o", "w">>
                  \/ TestI(getClassName(ch[i]), <<"s", "c", "r", "i", "p", "t", "o", "r", "-", "t", "a", "b", "l", "e", "r", "o", "w">>)
          THEN << ch[i] >>
          ELSE IF ch[i].tagName \in { "thead", "tbody", "tfoot" }
          THEN findRows(getChildren(ch[i]), 1)
          ELSE <<>>)
         \o findRows(ch, i + 1)

\* /^\d+$/.test(cellText)
IsNumeric(s) == s # <<>> /\ \A k \in 1..Len(s) : s[k] \in Digits

\* The row number rule (part_001:1253-1259)
IsSkippedCell(cell) ==
    getAttribute(cell, "role") = <<"r", "o", "w", "h", "e", "a", "d", "e", "r">> /\ IsNumeric(trim(extractText(cell)))

\* The cell test (part_001:1261-1263)
IsCell(cell) ==
    \/ cell.tagName \in { "th", "td" }
    \/ getAttribute(cell, "role") \in { <<"c", "e", "l", "l">>, <<"g", "r", "i", "d", "c", "e", "l", "l">>, <<"c", "o", "l", "u", "m", "n", "h", "e", "a", "d", "e", "r">> }
    \/ TestI(getClassName(cell), <<"s", "c", "r", "i", "p", "t", "o", "r", "-", "t", "a", "b", "l", "e", "c", "e", "l", "l">>)

\* cells of one row (part_001:1245-1277)
CellsFrom(doc, ch, i, um, context) ==
    IF i > Len(ch) THEN <<>>
    ELSE (IF ch[i].nodeType # "element" \/ IsSkippedCell(ch[i]) \/ ~IsCell(ch[i])
          THEN <<>>
          ELSE << TableCellNode(InlineOr(ChildrenToMdast(doc, ch[i], um, context), <<>>)) >>)
         \o CellsFrom(doc, ch, i + 1, um, context)

\* rows (part_001:1244-1285)
RowsFrom(doc, tableRows, i, um, context) ==
    IF i > Len(tableRows) THEN <<>>
    ELSE LET cells == CellsFrom(doc, getChildren(tableRows[i]), 1, um, context)
         IN  (IF cells # <<>> THEN << TableRowNode(cells) >> ELSE <<>>)
             \o RowsFrom(doc, tableRows, i + 1, um, context)

\* convertTable (part_001:1220-1298)
convertTable(doc, tableEl, um, context) ==
    LET rows == RowsFrom(doc, findRows(getChildren(tableEl), 1), 1, um, context)
    IN  IF rows = <<>> THEN ParagraphNode(<< TextNode(<<>>) >>)
        ELSE TableNode([k \in 1..Len(rows[1].children) |-> "null"], rows)


\* parseInt(tag[1], 10) of a heading tag (part_001:607)
TagLevel(tag) ==
    CASE tag = "h1" -> 1 [] tag = "h2" -> 2 [] tag = "h3" -> 3
      [] tag = "h4" -> 4 [] tag = "h5" -> 5 [] tag = "h6" -> 6

\* The heading rules (part_001:606-635): the nodes returned, none when the
\* element is no heading or an ARIA heading without content.
HeadingRule(el, children) ==
    IF el.tagName \in { "h1", "h2", "h3", "h4", "h5", "h6" }
    THEN << HeadingNode(TagLevel(el.tagName), flattenInline(children, FALSE)) >>
    ELSE IF IsAriaHeading(el) /\ flattenInline(children, FALSE) # <<>>
    THEN << HeadingNode(HeadingDepthOf(el), flattenInline(children, FALSE)) >>
    ELSE <<>>

\* The rules for inline code and code blocks (part_001:637-752): the nodes
\* returned, none when the element falls through them.  The code block
\* rules return processChildren for a blank block: "children".
CodeRule(el, inCode) ==
    LET text == trim(extractCodeText(el))
        inlineTag == el.tagName = "code" /\ ~IsCodeBlockClass(el)
        inlineLike == hasInlineCodeClass(el) \/ hasCodeStyle(el)
        codeText == extractCodeBlockText(el)
    IN  IF (inlineTag \/ inlineLike) /\ text # <<>> /\ includes(text, <<"\n">>)
        THEN [children |-> FALSE, nodes |-> << CodeOf(el, text) >>]
        ELSE IF (inlineTag \/ inlineLike) /\ text # <<>> /\ Len(text) < InlineCodeCap
        THEN [children |-> FALSE, nodes |-> << InlineCodeNode(text) >>]
        ELSE IF IsCodeBlockClass(el) \/ (el.tagName = "pre" /\ ~inCode)
        THEN IF trim(codeText) = <<>>
             THEN [children |-> TRUE, nodes |-> <<>>]
             ELSE [children |-> FALSE,
                   nodes |-> << CodeNode(
                       IF LanguageOf(el) # <<>> \/ IsCodeBlockClass(el) THEN LanguageOf(el)
                       ELSE LET codeChild == querySelectorAll(el, "code")
                            IN  IF codeChild = <<>> THEN <<>>
                                ELSE ClassLanguage(getClassName(codeChild[1])),
                       codeText) >>]
        ELSE IF el.tagName = "code" /\ text # <<>>
                /\ (Len(text) >= InlineCodeCap \/ includes(text, <<"\n">>))
        THEN [children |-> FALSE, nodes |-> << CodeOf(el, text) >>]
        ELSE [children |-> FALSE, nodes |-> <<>>]

\* domToMdast (part_001:549-1055)
domToMdast(doc, node, sibs, um, context) ==
    IF node.nodeType = "text"
    THEN IF context.preserveWhitespace
         THEN IF node.textContent # <<>> THEN << TextNode(node.textContent) >> ELSE <<>>
         ELSE IF NormalizeSpace(node.textContent) = <<>> THEN <<>>
         ELSE << TextNode(NormalizeSpace(node.textContent)) >>
    ELSE IF node.nodeType # "element" THEN <<>>
    ELSE IF SkipRule(node) THEN <<>>
    ELSE
    LET el == node
        tag == el.tagName
        className == getClassName(el)
        role == getAttribute(el, "role")
        children == ChildrenToMdast(doc, el, um, context)
        inlineChildren == flattenInline(children, FALSE)
        code == CodeRule(el, context.inCode)
        items == ListItems(doc, el, um, context)
        title == getAttribute(el, "title")
        href == getAttribute(el, "href")
        linkText == IF extractText(el) # <<>> THEN extractText(el) ELSE TitleHref(title)
        anchorText == IF extractText(el) # <<>> THEN extractText(el) ELSE href
    IN  IF CollapsedCode(el) # <<>> THEN CollapsedCode(el)
        ELSE IF HeadingRule(el, children) # <<>> THEN HeadingRule(el, children)
        ELSE IF code.nodes # <<>> THEN code.nodes
        ELSE IF code.children THEN children
        ELSE IF tag = "table" \/ role \in { <<"t", "a", "b", "l", "e">>, <<"g", "r", "i", "d">> }
        THEN << convertTable(doc, el, um, context) >>
        ELSE IF tag \in { "ul", "ol" } \/ role = <<"l", "i", "s", "t">>
        THEN IF getAttribute(el, "aria-hidden") = TrueLit THEN <<>>
             ELSE IF items = <<>> THEN children
             ELSE << ListNode(tag = "ol", items) >>
        ELSE IF TestI(className, <<"s", "c", "r", "i", "p", "t", "o", "r", "-", "t", "a", "s", "k">>) \/ TestI(className, <<"s", "c", "r", "i", "p", "t", "o", "r", "-", "c", "h", "e", "c", "k", "b", "o", "x">>)
        THEN LET checkbox == querySelectorAll(el, "input[type=checkbox]")
             IN  << ListItemNode(
                      \/ checkbox # <<>> /\ "checked" \in DOMAIN checkbox[1].attrs
                      \/ getAttribute(el, "aria-checked") = TrueLit,
                      wrapInParagraph(children)) >>
        ELSE IF tag = "blockquote"
        THEN << BlockquoteNode(wrapInParagraph(children)) >>
        ELSE IF IsCalloutClass(el)
        THEN << BlockquoteNode(
                  << ParagraphNode(<< TextNode(<<"[", "!">>
                                               \o detectCalloutType(className, el)
                                               \o <<"]">>) >>) >>
                  \o wrapInParagraph(children)) >>
        ELSE IF \/ tag = "hr"
                \/ TestI(className, <<"s", "c", "r", "i", "p", "t", "o", "r", "-", "d", "i", "v", "i", "d", "e", "r">>)
                \/ TestI(className, <<"s", "c", "r", "i", "p", "t", "o", "r", "-", "h", "o", "r", "i", "z", "o", "n", "t", "a", "l", "r", "u", "l", "e">>)
        THEN << ThematicBreakNode >>
        ELSE IF tag = "img" THEN DomImage(um, el)
        ELSE IF /\ role = <<"l", "i", "n", "k">> \/ TestI(className, <<"s", "c", "r", "i", "p", "t", "o", "r", "-", "h", "y", "p", "e", "r", "l", "i", "n", "k">>)
                /\ TitleHref(title) # <<>>
                /\ ~startsWith(TitleHref(title), <<"C", "l", "i", "c", "k">>)
        THEN << LinkNode(TitleHref(title), InlineOr(children, linkText)) >>
        ELSE IF tag = "a"
        THEN IF href # <<>> /\ href # <<"#">> /\ ~startsWith(href, <<"j", "a", "v", "a", "s", "c", "r", "i", "p", "t", ":">>)
             THEN << LinkNode(href, InlineOr(children, anchorText)) >>
             ELSE children
        ELSE IF tag \in { "strong", "b" }
        THEN IF inlineChildren = <<>> THEN <<>> ELSE << StrongNode(inlineChildren) >>
        ELSE IF tag \in { "em", "i" }
        THEN IF inlineChildren = <<>> THEN <<>> ELSE << EmphasisNode(inlineChildren) >>
        ELSE IF tag \in { "s", "del", "strike" }
        THEN IF inlineChildren = <<>> THEN <<>> ELSE << DeleteNode(inlineChildren) >>
        ELSE IF tag = "br"
        THEN IF sibs.parent /\ ~hasContentAfter(sibs.after) THEN <<>> ELSE << BreakNode >>
        ELSE IF tag = "p" \/ TestI(className, <<"s", "c", "r", "i", "p", "t", "o", "r", "-", "p", "a", "r", "a", "g", "r", "a", "p", "h">>)
        THEN IF children = <<>> THEN <<>>
             ELSE IF \E k \in 1..Len(children) : children[k].type \in BlockTypes
             THEN children
             ELSE IF PopBreaks(flattenInline(children, TRUE)) = <<>> THEN <<>>
             ELSE << ParagraphNode(PopBreaks(flattenInline(children, TRUE))) >>
        ELSE children


-----------------------------------------------------------------------------
(***************************************************************************)
(* The conversion of a page: convertToMarkdown (part_001:1498-1537) on the *)
(* content element dom, which is also the document searched by             *)
(* getElementById, with an empty image map.                                *)
(***************************************************************************)

NoUrls == << >>

\* domToMdast and the root built from it (part_001:1502-1506)
DomToMdast ==
    /\ dpc = "dom"
    /\ out' = RootNode(wrapInParagraph(domToMdast(dom, dom, NoParent, NoUrls, NoContext)))
    /\ dpc' = "converted"
    /\ UNCHANGED <<dom, nonDomVars>>

\* cleanupPlugin(mdast) (part_001:1530-1531)
CleanupDom ==
    /\ dpc = "converted"
    /\ out' = mdastCleanup(NoUrls, out)
    /\ dpc' = "cleaned"
    /\ UNCHANGED <<dom, nonDomVars>>

\* processor.stringify(cleaned) (part_001:1534)
StringifyDom ==
    /\ dpc = "cleaned"
    /\ out' = stringify(out)
    /\ dpc' = "markdown"
    /\ UNCHANGED <<dom, nonDomVars>>

NextDom == DomToMdast \/ CleanupDom

\* The states of a conversion that starts from one of the given pages.
InitDom(pages) ==
    /\ dom \in pages
    /\ out = RootNode(<<>>)
    /\ dpc = "dom"
    /\ RoundIdle /\ CleanupIdle /\ ExportIdle /\ ExpandIdle
    /\ ViewerIdle

Div(ch) == Element("div", NoAttrs, ch)
Host(ch) == [Element("div", NoAttrs, <<>>) EXCEPT !.shadowRoot = ch]

-----------------------------------------------------------------------------
(***************************************************************************)
(* Lists (part_001:764-845).  Loop renders a logical list as a visible     *)
(* list whose aria-owns names the items, followed by aria-hidden lists     *)
(* holding them; the lists stand in the page or in an open shadow root.    *)
(***************************************************************************)

MaxItems == 3

DigitChar(k) == <<"1", "2", "3", "4", "5", "6", "7", "8", "9">>[k]
ItemId(k) == <<"i", DigitChar(k)>>
ItemElement(k) == Element("li", [class |-> <<>>, id |-> ItemId(k)], << TextDom(ItemId(k)) >>)

Perms(n) == { f \in [1..n -> 1..n] : \A a, b \in 1..n : f[a] = f[b] => a = b }

ListKinds == { <<"ul", <<>>>>, <<"ol", <<>>>>, <<"div", <<"l", "i", "s", "t">>>> }

\* The visible list and its hidden siblings: order gives the aria-owns
\* attribute; the hidden lists hold the items in the order of their numbers,
\* but for the first owned item when the visible list holds it itself.
LogicalList(kind, order, firstInside) ==
    LET owns == join([k \in 1..Len(order) |-> ItemId(order[k])], <<" ">>)
        hiddenOf == SelectSeq([k \in 1..Len(order) |-> k],
                              LAMBDA k : ~(firstInside /\ k = order[1]))
        base == IF kind[2] = <<>> THEN NoAttrs ELSE ("role" :> kind[2]) @@ NoAttrs
    IN  << Element(kind[1], ("aria-owns" :> owns) @@ base,
                   IF firstInside THEN << ItemElement(order[1]) >> ELSE <<>>) >>
        \o [j \in 1..Len(hiddenOf) |->
              Element(kind[1], ("aria-hidden" :> TrueLit) @@ base,
                      << ItemElement(hiddenOf[j]) >>)]

\* The pages: the lists stand in the page's content element, after a
\* paragraph, or in the shadow root of an element of it.
ListPages ==
    { Div(<< Element("p", NoAttrs, << TextDom(<<"a">>) >>) >>
          \o (IF inShadow THEN << Host(LogicalList(kind, order, firstInside)) >>
              ELSE LogicalList(kind, order, firstInside))) :
        kind \in ListKinds,
        order \in UNION { Perms(n) : n \in 1..MaxItems },
        firstInside \in BOOLEAN,
        inShadow \in BOOLEAN }

InitLists == InitDom(ListPages)
SpecLists == InitLists /\ [][NextDom]_vars

\* The list the logical list of a page stands for: its items in the order of
\* aria-owns, each the paragraph of its text.
RECURSIVE DeepElementsOf(_, _)
DeepElements(node) ==
    IF node.nodeType # "element" THEN <<>>
    ELSE << node >> \o DeepElementsOf(getChildren(node), 1)
DeepElementsOf(ch, i) ==
    IF i > Len(ch) THEN <<>>
    ELSE DeepElements(ch[i]) \o DeepElementsOf(ch, i + 1)

OwningLists(page) ==
    SelectSeq(DeepElements(page), LAMBDA el : getAttribute(el, "aria-owns") # <<>>)

ExpectedList(page) ==
    LET list == OwningLists(page)[1]
        ids == Tokens(getAttribute(list, "aria-owns"))
    IN  ListNode(list.tagName = "ol",
                 [k \in 1..Len(ids) |->
                    ListItemNode("null", << ParagraphNode(<< TextNode(ids[k]) >>) >>)])

ListsOf(tree) == SelectSeq(tree.children, LAMBDA n : n.type = "list")

\* C13: a visible list whose aria-owns names n items held by aria-hidden
\* sibling lists is converted to exactly one list node, with the n items in
\* the order of aria-owns.
C13_OneListInOwnsOrder ==
    dpc = "converted" /\ OwningLists(dom) # <<>>
        => ListsOf(out) = << ExpectedList(dom) >>


-----------------------------------------------------------------------------
(***************************************************************************)
(* Tables (part_001:755-757, 1220-1298).  A table is a <table> of <tr>     *)
(* rows in a <tbody>, or a grid of elements with the ARIA roles row and    *)
(* gridcell; a row may start with a row header.                            *)
(***************************************************************************)

MaxRows == 2
MaxCells == 2

Role(r) == ("role" :> r) @@ NoAttrs

\* The texts of row headers: numbers, a number among white space, and texts
\* that are not numbers.
HeaderTexts == { <<"1">>, <<"1", "2">>, <<" ", "7", " ">>, <<"1", "a">>, <<"N", "a", "m", "e">> }

\* The row headers: a <th> or a <div> with the role, or none.
RowHeaders ==
    { <<>> } \cup { << Element(tag, Role(<<"r", "o", "w", "h", "e", "a", "d", "e", "r">>), << TextDom(text) >>) >> :
                      tag \in { "th", "div" }, text \in HeaderTexts }

DataText(k) == << <<"x", "y", "z", "w">>[k] >>

\* The data cells of a row, in HTML markup or with ARIA roles.
DataCells(html, n) ==
    [k \in 1..n |->
        IF html THEN Element("td", NoAttrs, << TextDom(DataText(k)) >>)
        ELSE Element("div", Role(<<"g", "r", "i", "d", "c", "e", "l", "l">>), << TextDom(DataText(k)) >>)]

TableRows(html) ==
    { IF html THEN Element("tr", NoAttrs, header \o DataCells(html, n))
      ELSE Element("div", Role(<<"r", "o", "w">>), header \o DataCells(html, n)) :
        header \in RowHeaders, n \in 1..MaxCells }

TablePages ==
    UNION { { Div(<< IF html
                     THEN Element("table", NoAttrs, << Element("tbody", NoAttrs, rows) >>)
                     ELSE Element("div", Role(<<"g", "r", "i", "d">>), rows) >>) :
                rows \in UNION { [1..n -> TableRows(html)] : n \in 1..MaxRows } } :
            html \in BOOLEAN }

InitTables == InitDom(TablePages)
SpecTables == InitTables /\ [][NextDom]_vars

\* The rows of the table of a page, and the cells row-index suppression
\* leaves of a row: every cell element but a row header with a number.
PageRows(page) ==
    IF page.childNodes[1].tagName = "table"
    THEN page.childNodes[1].childNodes[1].childNodes
    ELSE page.childNodes[1].childNodes

IsRowIndex(cell) ==
    getAttribute(cell, "role") = <<"r", "o", "w", "h", "e", "a", "d", "e", "r">>
        /\ IsNumeric(trim(cell.childNodes[1].textContent))

ExpectedRow(row) ==
    LET kept == SelectSeq(row.childNodes, LAMBDA cell : ~IsRowIndex(cell))
    IN  TableRowNode([k \in 1..Len(kept) |->
                        TableCellNode(<< TextNode(kept[k].childNodes[1].textContent) >>)])

\* C14: of the cells of a table row exactly the row headers whose text is
\* purely numeric are dropped: a row starting with one is emitted with one
\* cell fewer and without that text, and every other cell is emitted.
C14_OnlyNumericRowHeadersDropped ==
    dpc = "converted"
        => /\ Len(out.children) = 1
           /\ out.children[1].type = "table"
           /\ out.children[1].children
                 = [k \in 1..Len(PageRows(dom)) |-> ExpectedRow(PageRows(dom)[k])]


-----------------------------------------------------------------------------
(***************************************************************************)
(* Headings (part_001:604-635): <h1>..<h6>, and elements recognised by the *)
(* role heading or a heading class, with an aria-level attribute and a     *)
(* digit in the class name.                                                *)
(***************************************************************************)

\* aria-level attributes: none, in range, zero, negative, above six, not a
\* number, a number after white space or before other characters.
AriaLevels ==
    { <<>>, <<"1">>, <<"3">>, <<"6">>, <<"0">>, <<"-", "3">>, <<"7">>, <<"1", "2">>, <<"a", "b", "c">>, <<" ", "4">>, <<"2", ".", "5">>, <<"+", "9">> }

HeadingClasses ==
    { <<>>, <<"s", "c", "r", "i", "p", "t", "o", "r", "-", "h", "e", "a", "d", "i", "n", "g">>, <<"s", "c", "r", "i", "p", "t", "o", "r", "-", "h", "e", "a", "d", "i", "n", "g", "3">>, <<"s", "c", "r", "i", "p", "t", "o", "r", "-", "h", "e", "a", "d", "i", "n", "g", "9">>,
      <<"s", "c", "r", "i", "p", "t", "o", "r", "-", "h", "e", "a", "d", "i", "n", "g", "0">>, <<"s", "c", "r", "i", "p", "t", "o", "r", "-", "c", "o", "l", "l", "a", "p", "s", "i", "b", "l", "e", "H", "e", "a", "d", "i", "n", "g", " ", "h", "e", "a", "d", "i", "n", "g", "5">>, <<"s", "c", "r", "i", "p", "t", "o", "r", "-", "t", "i", "t", "l", "e">> }

HeadingContents == { <<>>, << TextDom(<<"t">>) >> }

HeadingElements ==
    { Element(tag, NoAttrs, ch) :
        tag \in { "h1", "h2", "h3", "h4", "h5", "h6" }, ch \in HeadingContents }
    \cup
    { Element("div",
              (IF level = <<>> THEN << >> ELSE "aria-level" :> level)
                 @@ (IF byRole THEN "role" :> <<"h", "e", "a", "d", "i", "n", "g">> ELSE << >>)
                 @@ ("class" :> class),
              ch) :
        level \in AriaLevels, class \in HeadingClasses, byRole \in BOOLEAN,
        ch \in HeadingContents }

HeadingPages == { Div(<< el >>) : el \in HeadingElements }

InitHeadings == InitDom(HeadingPages)
SpecHeadings == InitHeadings /\ [][NextDom]_vars

\* Every node of a tree, the tree included.
RECURSIVE NodesOf(_)
NodesOf(n) ==
    { n } \cup (IF HasChildren(n)
                THEN UNION { NodesOf(n.children[k]) : k \in 1..Len(n.children) }
                ELSE {})

\* C15: every heading node the converter emits has a depth in 1..6, whatever
\* the tag, the aria-level attribute and the digit in the class name.
C15_DepthInRange ==
    dpc \in { "converted", "cleaned" }
        => \A n \in NodesOf(out) : n.type = "heading" => n.depth \in 1..6

\* C15: a heading whose aria-level is 12 has been emitted with depth 6, and
\* one whose aria-level is -3 with depth 1.
C15_Witness ==
    /\ dpc = "converted"
    /\ getAttribute(dom.childNodes[1], "aria-level") \in { <<"1", "2">>, <<"-", "3">> }
    /\ Len(out.children) = 1
    /\ out.children[1].type = "heading"
    /\ out.children[1].depth
          = IF getAttribute(dom.childNodes[1], "aria-level") = <<"1", "2">> THEN 6 ELSE 1


-----------------------------------------------------------------------------
(***************************************************************************)
(* Code-like elements (part_001:637-702, 740-752): a <code> tag, an        *)
(* element with an inline code class or automation type, a span or div     *)
(* whose computed font family is a monospace one.                          *)
(***************************************************************************)

Styled(el, font) == [el EXCEPT !.fontFamily = font]

\* The ways an element is recognised as code-like: its tag, attributes and
\* computed font family.
CodeLikeShapes ==
    { Element("code", NoAttrs, <<>>),
      Element("span", [class |-> <<"s", "c", "r", "i", "p", "t", "o", "r", "-", "i", "n", "l", "i", "n", "e", "C", "o", "d", "e">>], <<>>),
      Element("span", [class |-> <<"i", "n", "l", "i", "n", "e", "-", "c", "o", "d", "e">>], <<>>),
      Element("span", [class |-> <<"m", "o", "n", "o", "s", "p", "a", "c", "e">>], <<>>),
      Element("span", ("data-automation-type" :> <<"c", "o", "d", "e">>) @@ NoAttrs, <<>>),
      Styled(Element("span", NoAttrs, <<>>), <<"C", "o", "n", "s", "o", "l", "a", "s", ",", " ", "m", "o", "n", "o", "s", "p", "a", "c", "e">>),
      Styled(Element("div", NoAttrs, <<>>), <<"M", "e", "n", "l", "o">>) }

Repeat(c, n) == [k \in 1..n |-> c]

\* Texts below, at and above the cap of inline code, with and without a
\* newline, and a text among white space.
CodeTexts ==
    { <<"a", "b">>, <<"a", "\n", "b">>, <<" ", "a", "b", " ">>,
      Repeat("a", InlineCodeCap - 1), Repeat("a", InlineCodeCap),
      Repeat("a", InlineCodeCap + 1),
      Repeat("a", InlineCodeCap) \o <<"\n", "b">> }

CodeLanguages == { <<>>, <<"j", "s">> }

CodePages ==
    { Div(<< [shape EXCEPT
                !.childNodes = << TextDom(text) >>,
                !.attrs = (IF lang = <<>> THEN << >> ELSE "data-language" :> lang)
                             @@ shape.attrs] >>) :
        shape \in CodeLikeShapes, text \in CodeTexts, lang \in CodeLanguages }

InitCode == InitDom(CodePages)
SpecCode == InitCode /\ [][NextDom]_vars

\* C16: a code-like element with text is converted to inlineCode when its
\* text has no newline and fewer than 200 characters, and to a code node
\* otherwise, however it was recognised as code-like.
C16_ShortInlineLongBlock ==
    dpc = "converted"
        => LET el == dom.childNodes[1]
               text == trim(el.childNodes[1].textContent)
           IN  out.children
                 = IF ~includes(text, <<"\n">>) /\ Len(text) < InlineCodeCap
                   THEN << ParagraphNode(<< InlineCodeNode(text) >>) >>
                   ELSE << CodeNode(getAttribute(el, "data-language"), text) >>


-----------------------------------------------------------------------------
(***************************************************************************)
(* Callouts (part_001:869-887, 1303-1319), converted, cleaned and          *)
(* serialized (part_001:1498-1537).                                        *)
(***************************************************************************)

CalloutClasses ==
    { <<"s", "c", "r", "i", "p", "t", "o", "r", "-", "c", "a", "l", "l", "o", "u", "t">>, <<"s", "c", "r", "i", "p", "t", "o", "r", "-", "i", "n", "f", "o", "B", "l", "o", "c", "k">>, <<"s", "c", "r", "i", "p", "t", "o", "r", "-", "h", "i", "g", "h", "l", "i", "g", "h", "t", "B", "l", "o", "c", "k">>,
      <<"s", "c", "r", "i", "p", "t", "o", "r", "-", "c", "a", "l", "l", "o", "u", "t", " ", "W", "a", "r", "n", "i", "n", "g">>, <<"s", "c", "r", "i", "p", "t", "o", "r", "-", "b", "l", "o", "c", "k", "-", "c", "a", "l", "l", "o", "u", "t", "-", "b", "o", "r", "d", "e", "r", " ", "t", "i", "p">>,
      <<"s", "c", "r", "i", "p", "t", "o", "r", "-", "c", "o", "m", "p", "o", "n", "e", "n", "t", "-", "b", "l", "o", "c", "k", "-", "c", "a", "l", "l", "o", "u", "t", " ", "d", "a", "n", "g", "e", "r", " ", "n", "o", "t", "e">> }

DataTypes ==
    { <<>>, <<"o", "t", "h", "e", "r">>, <<"W", "a", "r", "n", "i", "n", "g">> } \cup { typeMap[k][1] : k \in 1..Len(typeMap) }

CalloutContents ==
    { << TextDom(<<"R", "e", "m", "e", "m", "b", "e", "r", " ", "t", "o", " ", "s", "a", "v", "e">>) >>,
      << Element("p", NoAttrs, << TextDom(<<"R", "e", "m", "e", "m", "b", "e", "r", " ", "t", "o", " ", "s", "a", "v", "e">>) >>) >> }

CalloutPages ==
    { Div(<< Element("div",
                     (IF type = <<>> THEN << >> ELSE "data-type" :> type)
                        @@ ("class" :> class),
                     ch) >>) :
        class \in CalloutClasses, type \in DataTypes, ch \in CalloutContents }

InitCallouts == InitDom(CalloutPages)
NextCallouts == DomToMdast \/ CleanupDom \/ StringifyDom
SpecCallouts == InitCallouts /\ [][NextCallouts]_vars

\* The alert types and the vocabulary of keywords.
AlertTypes == { <<"N", "O", "T", "E">>, <<"T", "I", "P">>, <<"I", "M", "P", "O", "R", "T", "A", "N", "T">>, <<"W", "A", "R", "N", "I", "N", "G">>, <<"C", "A", "U", "T", "I", "O", "N">> }
Vocabulary ==
    { <<<<"n", "o", "t", "e">>, <<"N", "O", "T", "E">>>>, <<<<"i", "n", "f", "o">>, <<"N", "O", "T", "E">>>>, <<<<"t", "i", "p">>, <<"T", "I", "P">>>>, <<<<"h", "i", "n", "t">>, <<"T", "I", "P">>>>,
      <<<<"s", "u", "c", "c", "e", "s", "s">>, <<"T", "I", "P">>>>, <<<<"i", "m", "p", "o", "r", "t", "a", "n", "t">>, <<"I", "M", "P", "O", "R", "T", "A", "N", "T">>>>, <<<<"w", "a", "r", "n", "i", "n", "g">>, <<"W", "A", "R", "N", "I", "N", "G">>>>,
      <<<<"c", "a", "u", "t", "i", "o", "n">>, <<"C", "A", "U", "T", "I", "O", "N">>>>, <<<<"d", "a", "n", "g", "e", "r">>, <<"C", "A", "U", "T", "I", "O", "N">>>>, <<<<"e", "r", "r", "o", "r">>, <<"C", "A", "U", "T", "I", "O", "N">>>> }

\* The keywords the class name or the data-type attribute of el contains.
KeywordsIn(el) ==
    { v \in Vocabulary :
        \/ includes(toLowerCase(getClassName(el)), v[1])
        \/ includes(toLowerCase(getAttribute(el, "data-type")), v[1]) }

\* The alert marker of the callout the converter made.
MarkerOf(tree) == tree.children[1].children[1].children[1].value

\* C17: the type of a callout is one of the five alert types; it is the type
\* of a vocabulary keyword found in the class name or the data-type
\* attribute when there is one, and NOTE when there is none.
C17_TypeFromVocabulary ==
    dpc = "converted"
        => \E t \in AlertTypes :
              /\ MarkerOf(out) = <<"[", "!">> \o t \o <<"]">>
              /\ KeywordsIn(dom.childNodes[1]) = {} => t = <<"N", "O", "T", "E">>
              /\ KeywordsIn(dom.childNodes[1]) # {}
                    => \E v \in KeywordsIn(dom.childNodes[1]) : v[2] = t

\* C17: a callout whose class name holds no keyword and whose data-type is
\* 'warning' has been converted to a WARNING alert.
C17_Witness ==
    /\ dpc = "converted"
    /\ getClassName(dom.childNodes[1]) = <<"s", "c", "r", "i", "p", "t", "o", "r", "-", "c", "a", "l", "l", "o", "u", "t">>
    /\ getAttribute(dom.childNodes[1], "data-type") = <<"w", "a", "r", "n", "i", "n", "g">>
    /\ MarkerOf(out) = <<"[", "!", "W", "A", "R", "N", "I", "N", "G", "]">>

\* C18: the callout with class scriptor-infoBlock and the text 'Remember to
\* save' is exported as the line '> [!NOTE]' followed by the line
\* '> Remember to save'.
C18_AlertMarkerVerbatim ==
    /\ dpc = "markdown"
    /\ getClassName(dom.childNodes[1]) = <<"s", "c", "r", "i", "p", "t", "o", "r", "-", "i", "n", "f", "o", "B", "l", "o", "c", "k">>
    /\ getAttribute(dom.childNodes[1], "data-type") = <<>>
    => /\ Len(split(out, "\n")) >= 2
       /\ split(out, "\n")[1] = <<">", " ", "[", "!", "N", "O", "T", "E", "]">>
       /\ split(out, "\n")[2] = <<">", " ", "R", "e", "m", "e", "m", "b", "e", "r", " ", "t", "o", " ", "s", "a", "v", "e">>


-----------------------------------------------------------------------------
(***************************************************************************)
(* Chrome (part_001:470-493): an element the skip rule flags, holding the  *)
(* text 'zz', inside each kind of content the converter knows.             *)
(***************************************************************************)

ChromeText == <<"z", "z">>

ChromeElements ==
    { Element("div", [class |-> <<"t", "o", "o", "l", "b", "a", "r">>], << TextDom(ChromeText) >>),
      Element("span", [class |-> <<"s", "c", "r", "i", "p", "t", "o", "r", "-", "c", "o", "l", "l", "a", "p", "s", "e", "B", "u", "t", "t", "o", "n">>], << TextDom(ChromeText) >>),
      Element("div", [class |-> <<"c", "o", "n", "t", "e", "x", "t", "M", "e", "n", "u">>], << TextDom(ChromeText) >>),
      Element("span", [class |-> <<"p", "r", "e", "s", "e", "n", "c", "e", "-", "a", "v", "a", "t", "a", "r">>], << TextDom(ChromeText) >>),
      Element("span", ("aria-hidden" :> TrueLit) @@ NoAttrs, << TextDom(ChromeText) >>),
      Element("div", ("aria-hidden" :> TrueLit) @@ NoAttrs,
              << Element("span", NoAttrs, << TextDom(ChromeText) >>) >>),
      Element("style", NoAttrs, << TextDom(ChromeText) >>),
      Element("script", NoAttrs, << TextDom(ChromeText) >>),
      Element("noscript", NoAttrs, << TextDom(ChromeText) >>),
      Element("link", NoAttrs, << TextDom(ChromeText) >>) }

Content == TextDom(<<"a">>)

\* The places of a chrome element c: beside content in a paragraph, a
\* heading, a link, a blockquote, a callout, a list item, a table cell,
\* emphasis, a shadow root, and the code-like elements.
ChromeContexts(c) ==
    { Element("p", NoAttrs, << Content, c >>),
      Element("h2", NoAttrs, << Content, c >>),
      Element("a", ("href" :> <<"u">>) @@ NoAttrs, << Content, c >>),
      Element("a", ("href" :> <<"u">>) @@ NoAttrs, << c >>),
      Element("blockquote", NoAttrs, << Content, c >>),
      Element("div", [class |-> <<"s", "c", "r", "i", "p", "t", "o", "r", "-", "c", "a", "l", "l", "o", "u", "t">>], << c, Content >>),
      Element("ul", NoAttrs, << Element("li", NoAttrs, << Content, c >>) >>),
      Element("table", NoAttrs,
              << Element("tr", NoAttrs, << Element("td", NoAttrs, << c, Content >>) >>) >>),
      Element("strong", NoAttrs, << Content, c >>),
      Host(<< c, Content >>),
      Element("code", NoAttrs, << Content, c >>),
      Element("span", [class |-> <<"i", "n", "l", "i", "n", "e", "-", "c", "o", "d", "e">>], << Content, c >>),
      Element("pre", NoAttrs, << Content, c >>),
      Element("pre", NoAttrs, << Element("code", NoAttrs, << c, Content >>) >>),
      Element("div", [class |-> <<"s", "c", "r", "i", "p", "t", "o", "r", "-", "c", "o", "d", "e", "B", "l", "o", "c", "k">>],
              << Element("div", NoAttrs, << Content >>), c >>) }

ChromePages == { Div(<< ctx >>) : ctx \in UNION { ChromeContexts(c) : c \in ChromeElements } }

InitChrome == InitDom(ChromePages)
SpecChrome == InitChrome /\ [][NextDom]_vars

\* C19: nothing of a chrome element reaches the converter's output: its
\* text is in no value of the tree, the value of a code block included.
C19_ChromeContributesNothing ==
    dpc = "converted"
        => \A n \in NodesOf(out) :
              "value" \in DOMAIN n => ~includes(n.value, ChromeText)

-----------------------------------------------------------------------------
\* C20: on a page without a content element every export that has started
\* has shown the alert and stopped there: the expansion was never started,
\* no image was fetched or stored, no map entry and no tar entry was made.
C20_NoContentAborts ==
    ~contentFound
        => \A e \in Exports :
              /\ xpc[e] \in { "idle", "start", "aborted" }
              /\ alerted[e] <=> xpc[e] = "aborted"
              /\ expandPromise[e] = "none"
              /\ \A src \in Sources : fetchCount[e][src] = 0
              /\ stored[e] = {}
              /\ db = {}
              /\ urlMap[e] = <<>>
              /\ tarIndex[e] = 0
              /\ tarFiles[e] = {}

\* C20: the automatic export of a page without a content element, which
\* holds images, has shown the alert and returned.
C20_Witness ==
    /\ ~contentFound
    /\ imgElements # <<>>
    /\ xpc[1] = "aborted"
    /\ alerted[1]

-----------------------------------------------------------------------------
\* The events of one attempt, in the order tryClick gives them.
AttemptEvents ==
    << "mouseenter", "mouseover", "mousedown", "mouseup", "click", "el.click", "onClick" >>

\* C21: in every attempt the toggle gets mouseenter, mouseover, mousedown,
\* mouseup, click in that order and then, if at all, the native click and
\* the framework handler; a toggle on which the synthetic click took effect
\* gets no further click.
C21_FallbackOnlyWithoutEffect ==
    /\ [](/\ Len(dispatched) \in { 0, 5, 6, 7 }
          /\ \A k \in 1..Len(dispatched) : dispatched[k].event = AttemptEvents[k])
    /\ [][(Len(dispatched) >= 5 /\ dispatched[5].taken)
            => Len(dispatched') <= Len(dispatched)]_vars


-----------------------------------------------------------------------------
(***************************************************************************)
(* Inline code under the cleanup (part_001:1346-1493).                     *)
(***************************************************************************)

\* The values of the inlineCode nodes of a tree, in document order.
RECURSIVE InlineCodeValues(_)
RECURSIVE InlineCodeValuesOf(_, _)
InlineCodeValuesOf(ch, i) ==
    IF i > Len(ch) THEN <<>>
    ELSE InlineCodeValues(ch[i]) \o InlineCodeValuesOf(ch, i + 1)

InlineCodeValues(n) ==
    IF n.type = "inlineCode" THEN << n.value >>
    ELSE IF HasChildren(n) THEN InlineCodeValuesOf(n.children, 1)
    ELSE <<>>

\* C22: the cleanup removes no inlineCode node and changes no inlineCode
\* value: the tree it returns holds the inlineCode values of the tree it was
\* given, in the same order, whatever the values, parents and siblings are.
C22_InlineCodeKept ==
    [][cpass = 0 => InlineCodeValues(ctree') = InlineCodeValues(ctree)]_vars


-----------------------------------------------------------------------------
(***************************************************************************)
(* The language-label rewrite of the cleanup (part_001:1404-1440).         *)
(***************************************************************************)

\* A paragraph that consists of a language name, an inlineCode and
\* optionally a "Show more lines" text, and of nothing else.
IsSnippetParagraph(p) ==
    /\ p.type = "paragraph"
    /\ Len(p.children) \in { 2, 3 }
    /\ p.children[1].type = "text" /\ LANG_LABELS(trim(p.children[1].value))
    /\ p.children[2].type = "inlineCode"
    /\ Len(p.children) = 3 =>
         p.children[3].type = "text" /\ ShowMoreLines(p.children[3].value)

\* C23: the cleanup replaces the paragraph under root by a code node exactly
\* when the paragraph (its adjacent texts read as one text) is a language
\* name, an inlineCode and optionally a "Show more lines" text; the code node
\* has the language in lower case and the inlineCode's value; a paragraph of
\* any other content is not replaced by a code node.
C23_RewriteExactlySnippets ==
    [][cpass = 0 =>
         LET p == mergeTextNodes(StripCssTexts(ctree)).children[1]
         IN  IF IsSnippetParagraph(p)
             THEN /\ ctree'.children # <<>>
                  /\ ctree'.children[1] =
                       CodeNode(toLowerCase(trim(p.children[1].value)),
                                p.children[2].value)
             ELSE \A i \in 1..Len(ctree'.children) :
                     ctree'.children[i].type # "code"]_vars


-----------------------------------------------------------------------------
(***************************************************************************)
(* Blockquotes read back by parseMarkdown (code.js:2883-2891).             *)
(***************************************************************************)

OfType(nodes, type) == SelectSeq(nodes, LAMBDA n : n.type = type)

\* C24: for every blockquote the serializer emits, parseMarkdown returns
\* exactly one blockquote entry, whose content is the quoted lines in order
\* without their markers; no line of a blockquote becomes a paragraph entry
\* or a second blockquote entry.
C24_OneBlockquotePerQuote ==
    rtpc = "parsed" =>
        LET quotes == OfType(rtTree.children, "blockquote")
            parsed == OfType(rtAst, "blockquote")
        IN  /\ Len(parsed) = Len(quotes)
            /\ \A k \in 1..Len(quotes) :
                  parsed[k].content = join(Flow(quotes[k], 1), <<"\n">>)
            /\ Len(OfType(rtAst, "p")) = Len(OfType(rtTree.children, "paragraph"))


-----------------------------------------------------------------------------
(***************************************************************************)
(* Table alignments read back by parseMarkdown (code.js:2918-2951,         *)
(* 2987-2997).  The tables are those the serializer writes: a header row,  *)
(* a delimiter row and one body row; the alignment of a column is "left",  *)
(* "center", "right" or "null" (no alignment, as convertTable gives every  *)
(* column, part_001:1274-1276).                                            *)
(***************************************************************************)

MaxColumns == 3

Alignments == { "left", "center", "right", "null" }

AlignedTable(align) ==
    TableNode(align,
        << TableRowNode([c \in 1..Len(align) |-> TableCellNode(<< TextNode(<<"h">>) >>)]),
           TableRowNode([c \in 1..Len(align) |-> TableCellNode(<< TextNode(DataText(c)) >>)]) >>)

AlignedTrees ==
    { RootNode(<< AlignedTable(a) >>) :
        a \in UNION { [1..n -> Alignments] : n \in 1..MaxColumns } }

InitAlign ==
    /\ DomIdle
    /\ ExpandIdle
    /\ CleanupIdle
    /\ ExportIdle
    /\ ViewerIdle
    /\ rtTree \in AlignedTrees
    /\ rtMarkdown = <<>>
    /\ rtAst = <<>>
    /\ lineIndex = 0
    /\ consumed = <<>>
    /\ rtpc = "tree"

SpecAlign == InitAlign /\ [][NextRound]_vars

\* C25: parseMarkdown of a serialized table gives one table entry whose
\* alignments have one entry per column, "center" for :---:, "right" for
\* ---:, "left" for :--- and no alignment for a cell without colons, so
\* that the delimiter row written from them is the one that was read.
C25_AlignmentsKept ==
    rtpc = "parsed" =>
        LET table == rtTree.children[1]
        IN  /\ Len(rtAst) = 1
            /\ rtAst[1].type = "table"
            /\ rtAst[1].alignments = table.align
            /\ TableLines([table EXCEPT !.align = rtAst[1].alignments])[2]
                 = split(rtMarkdown, "\n")[2]


-----------------------------------------------------------------------------
(***************************************************************************)
(* The terminal interface of the viewer (main.go:168-700).  Bubble Tea     *)
(* keeps the model value Update returns and passes it, by value, to the    *)
(* next Update.  A method with receiver (m model) works on a copy of its   *)
(* caller's model; a method with receiver (m *model) changes the model it  *)
(* is called on.  Texts and paths are character sequences.                 *)
(***************************************************************************)

MaxLogEntries == 2    \* entries of the event log
MaxCmds == 1          \* command messages waiting to be delivered

maxLogs == 100

Home == <<"/", "h">>
Cwd == <<"/", "w">>
Dirs == { <<"/", "w">>, <<"/", "d">>, <<"/", "h">>, <<"/", "h", "/", "l", "o", "o", "p", "s">> }
TarPaths == { <<"/", "w", "/", "l", "o", "o", "p", "_", "e", "x", "p", "o", "r", "t", "_", "1", ".", "t", "a", "r">> }

\* os.Stat(path)
PathKind(path) ==
    IF path \in Dirs THEN "dir" ELSE IF path \in TarPaths THEN "file" ELSE "none"

\* filepath.Join(a, b) and filepath.Abs(path) for paths without . and ..
Join(a, b) ==
    IF b = <<>> THEN a
    ELSE IF b[1] = "/" THEN a \o b
    ELSE a \o <<"/">> \o b

Abs(path) == IF startsWith(path, <<"/">>) THEN path ELSE Join(Cwd, path)

\* strings.Fields(input)
Fields(input) == SelectSeq(split(input, " "), LAMBDA w : w # <<>>)

LogMsg(text, style) == [type |-> "logMsg", text |-> text, style |-> style]
QuitMsg == [type |-> "quit"]
NilCmd == [type |-> "nil"]

\* initialModel (main.go:224-275)
initialModel(watchDir) ==
    [input |-> <<>>, logs |-> <<>>, maxLogs |-> maxLogs, watchDir |-> watchDir,
     pickerDir |-> watchDir, quitting |-> FALSE, mode |-> "normal",
     showWelcome |-> TRUE]

\* addLog (main.go:436-446)
addLog(m, text, style) ==
    LET logs == Append(m.logs, [text |-> text, style |-> style])
    IN  [m EXCEPT !.logs = IF Len(logs) > m.maxLogs THEN Tail(logs) ELSE logs]

\* What a command method leaves behind: the model it worked on, the command
\* it returns and the goroutines it started.
Done(m, cmd, spawn) == [m |-> m, cmd |-> cmd, spawn |-> spawn]

\* cmdBrowse (main.go:531-535)
cmdBrowse(m) ==
    Done([m EXCEPT !.mode = "browse", !.showWelcome = FALSE], NilCmd, <<>>)

\* ~ is the home directory (main.go:539-544, 561-566)
ExpandHome(path) ==
    IF startsWith(path, <<"~">>) THEN Join(Home, slice(path, 1)) ELSE path

\* cmdLoad (main.go:537-557)
cmdLoad(m, arg) ==
    LET path == ExpandHome(arg)
    IN  IF PathKind(path) = "none"
        THEN Done(m, LogMsg("File not found", "error"), <<>>)
        ELSE Done(m, LogMsg("Loading", "info"), << path >>)

\* cmdChangeDir (main.go:559-592)
cmdChangeDir(m, arg) ==
    LET absPath == Abs(ExpandHome(arg))
    IN  IF PathKind(absPath) = "none"
        THEN Done(m, LogMsg("Directory not found", "error"), <<>>)
        ELSE IF PathKind(absPath) # "dir"
        THEN Done(m, LogMsg("Not a directory", "error"), <<>>)
        ELSE Done([m EXCEPT !.watchDir = absPath, !.pickerDir = absPath],
                  LogMsg("Watch directory changed", "success"), <<>>)

\* cmdClear (main.go:629-633)
cmdClear(m) == Done([m EXCEPT !.logs = <<>>], NilCmd, <<>>)

\* cmdReload (main.go:662-678)
cmdReload(m) ==
    IF currentContent = 0
    THEN Done(m, LogMsg("No content to reload", "warn"), <<>>)
    ELSE Done(m, LogMsg("Reloading", "info"), << heap[currentContent].TarPath >>)

\* The commands that only report (main.go:509-529, 594-660, 680-689).
Reports ==
    { <<"/", "h", "e", "l", "p">>, <<"/", "h">>, <<"/", "?">>, <<"/", "o", "p", "e", "n">>, <<"/", "o">>, <<"/", "g", "i", "t", "h", "u", "b">>, <<"/", "g">>,
      <<"/", "v", "i", "g", "n", "e", "l", "l", "i">>, <<"/", "v">>, <<"/", "m", "i", "n", "i", "m", "a", "l">>, <<"/", "m">>, <<"/", "s", "t", "a", "t", "u", "s">>, <<"/", "s">>,
      <<"/", "t", "e", "m", "p", "l", "a", "t", "e", "s">>, <<"/", "t">>, <<"/", "d", "i", "r">>, <<"/", "d">>, <<"/", "s", "c", "r", "i", "p", "t">>, <<"/", "e", "x", "p", "o", "r", "t">> }

\* handleCommand (main.go:448-507), called on the model m
handleCommand(m, input) ==
    IF ~startsWith(input, <<"/">>) THEN Done(m, LogMsg("echo", "info"), <<>>)
    ELSE
    LET parts == Fields(input)
        cmd == toLowerCase(parts[1])
        args == Tail(parts)
    IN  IF cmd \in { <<"/", "q", "u", "i", "t">>, <<"/", "q">>, <<"/", "e", "x", "i", "t">> } THEN Done(m, QuitMsg, <<>>)
        ELSE IF cmd \in { <<"/", "b", "r", "o", "w", "s", "e">>, <<"/", "b">> } THEN cmdBrowse(m)
        ELSE IF cmd \in { <<"/", "l", "o", "a", "d">>, <<"/", "l">> }
        THEN IF Len(args) > 0 THEN cmdLoad(m, join(args, <<" ">>))
             ELSE Done(m, LogMsg("Usage: /load", "warn"), <<>>)
        ELSE IF cmd = <<"/", "c", "d">>
        THEN IF Len(args) > 0 THEN cmdChangeDir(m, join(args, <<" ">>))
             ELSE Done(m, LogMsg("Usage: /cd", "warn"), <<>>)
        ELSE IF cmd \in { <<"/", "c", "l", "e", "a", "r">>, <<"/", "c">> } THEN cmdClear(m)
        ELSE IF cmd \in { <<"/", "r", "e", "l", "o", "a", "d">>, <<"/", "r">> } THEN cmdReload(m)
        ELSE IF cmd \in Reports THEN Done(m, LogMsg("report", "info"), <<>>)
        ELSE Done(m, LogMsg("Unknown command", "error"), <<>>)

\* Update's call m.handleCommand(input) (main.go:351): handleCommand has the
\* receiver (m model), so it and the methods it calls work on a copy, and
\* Update keeps its own m.
CallByValue(m, input) == [handleCommand(m, input) EXCEPT !.m = m]

\* The same call had handleCommand the receiver (m *model).
CallByPointer(m, input) == handleCommand(m, input)

Running == lastMsg # "quit" /\ ~tui.quitting

\* The command, if any, joins those whose message is still to come.
WithCmd(cmd) == IF cmd = NilCmd THEN cmds ELSE Append(cmds, cmd)

\* The lines somebody can type.
TuiInputs ==
    { <<"/", "b", "r", "o", "w", "s", "e">>, <<"/", "B">>, <<"/", "c", "l", "e", "a", "r">>, <<"/", "c", "d", " ", "/", "d">>, <<"/", "c", "d", " ", "~", "/", "l", "o", "o", "p", "s">>,
      <<"/", "c", "d", " ", "/", "w", "/", "l", "o", "o", "p", "_", "e", "x", "p", "o", "r", "t", "_", "1", ".", "t", "a", "r">>, <<"/", "c", "d">>,
      <<"/", "l", "o", "a", "d", " ", "/", "w", "/", "l", "o", "o", "p", "_", "e", "x", "p", "o", "r", "t", "_", "1", ".", "t", "a", "r">>, <<"/", "h", "e", "l", "p">>,
      <<"/", "p", "l", "u", "g", "i", "n">>, <<"/", "q", "u", "i", "t">>, <<" ", " ">> }

\* Update, tea.KeyCtrlC (main.go:307-309)
KeyCtrlC ==
    /\ Running
    /\ tui' = [tui EXCEPT !.quitting = TRUE]
    /\ cmds' = Append(cmds, QuitMsg)
    /\ lastMsg' = "ctrl+c"
    /\ UNCHANGED spawned
    /\ UNCHANGED <<nonViewerVars, watchVars, contentVars>>

\* Update, tea.KeyTab (main.go:310-318)
KeyTab ==
    /\ Running
    /\ tui' = IF tui.mode = "normal"
              THEN [tui EXCEPT !.mode = "browse", !.showWelcome = FALSE]
              ELSE [tui EXCEPT !.mode = "normal"]
    /\ lastMsg' = "tab"
    /\ UNCHANGED <<cmds, spawned>>
    /\ UNCHANGED <<nonViewerVars, watchVars, contentVars>>

\* Update, tea.KeyEsc (main.go:319-324, 397-400)
KeyEsc ==
    /\ Running
    /\ tui' = [tui EXCEPT !.mode = "normal"]
    /\ lastMsg' = "esc"
    /\ UNCHANGED <<cmds, spawned>>
    /\ UNCHANGED <<nonViewerVars, watchVars, contentVars>>

\* Update in browse mode, any other key (main.go:327-342): the file picker
\* moves, enters a directory or selects a .tar file.
PickerKey ==
    /\ Running
    /\ tui.mode = "browse"
    /\ \E selected \in TarPaths \cup { <<>> } :
          IF selected = <<>>
          THEN UNCHANGED <<tui, spawned>>
          ELSE /\ Len(tui.logs) < MaxLogEntries
               /\ tui' = addLog([tui EXCEPT !.mode = "normal"], "Loading", "info")
               /\ spawned' = Append(spawned, selected)
    /\ lastMsg' = "picker key"
    /\ UNCHANGED cmds
    /\ UNCHANGED <<nonViewerVars, watchVars, contentVars>>

\* Update in normal mode, the keys of a line (main.go:397-400): the text
\* input holds what was typed.
KeyRunes ==
    /\ Running
    /\ tui.mode = "normal"
    /\ \E text \in TuiInputs : tui' = [tui EXCEPT !.input = text]
    /\ lastMsg' = "runes"
    /\ UNCHANGED <<cmds, spawned>>
    /\ UNCHANGED <<nonViewerVars, watchVars, contentVars>>

\* Update in normal mode, tea.KeyEnter (main.go:344-353)
KeyEnter ==
    /\ Running
    /\ tui.mode = "normal"
    /\ Len(cmds) < MaxCmds
    /\ LET input == trim(tui.input)
           m == [tui EXCEPT !.input = <<>>, !.showWelcome = FALSE]
           call == IF input # <<>> THEN CallByValue(m, input)
                   ELSE Done(m, NilCmd, <<>>)
       IN  /\ tui' = call.m
           /\ cmds' = WithCmd(call.cmd)
           /\ spawned' = spawned \o call.spawn
    /\ lastMsg' = "enter"
    /\ UNCHANGED <<nonViewerVars, watchVars, contentVars>>

\* Update, logMsg (main.go:373-377), and the end of the program on tea.Quit
CmdMsg ==
    /\ lastMsg # "quit"
    /\ \E i \in 1..Len(cmds) :
          /\ cmds' = SubSeq(cmds, 1, i - 1) \o SubSeq(cmds, i + 1, Len(cmds))
          /\ IF cmds[i] = QuitMsg
             THEN /\ lastMsg' = "quit"
                  /\ UNCHANGED tui
             ELSE /\ Len(tui.logs) < MaxLogEntries
                  /\ tui' = [addLog(tui, cmds[i].text, cmds[i].style)
                                EXCEPT !.showWelcome = FALSE]
                  /\ lastMsg' = "logMsg"
    /\ UNCHANGED spawned
    /\ UNCHANGED <<nonViewerVars, watchVars, contentVars>>

\* Update, tickMsg (main.go:379-380)
TickMsg ==
    /\ Running
    /\ lastMsg' = "tickMsg"
    /\ UNCHANGED <<tui, cmds, spawned>>
    /\ UNCHANGED <<nonViewerVars, watchVars, contentVars>>

Update ==
    \/ KeyCtrlC \/ KeyTab \/ KeyEsc \/ PickerKey \/ KeyRunes \/ KeyEnter
    \/ CmdMsg \/ TickMsg

InitTui ==
    /\ nonViewerIdle
    /\ WatchIdle
    /\ ContentIdle
    /\ tui = initialModel(Cwd)
    /\ cmds = <<>>
    /\ lastMsg = "none"
    /\ spawned = <<>>

SpecTui == InitTui /\ [][Update]_vars

\* The first word of the line in the text input, as handleCommand reads it.
Typed == Fields(trim(tui.input))
TypedCmd == IF Typed = <<>> THEN <<>> ELSE toLowerCase(Typed[1])

\* C26: the state changes of the slash commands are in the model Update
\* returns for the Enter key: after /browse or /b the model is in browse
\* mode with the welcome screen hidden, as after Tab; after /clear or /c the
\* log is empty; after /cd with an existing directory the watch directory is
\* that directory.
C26_CommandsTakeEffect ==
    [][lastMsg' = "enter" =>
         /\ TypedCmd \in { <<"/", "b", "r", "o", "w", "s", "e">>, <<"/", "b">> } =>
               tui'.mode = "browse" /\ ~tui'.showWelcome
         /\ TypedCmd \in { <<"/", "c", "l", "e", "a", "r">>, <<"/", "c">> } => tui'.logs = <<>>
         /\ (TypedCmd = <<"/", "c", "d">> /\ Len(Typed) > 1
               /\ PathKind(Abs(ExpandHome(join(Tail(Typed), <<" ">>)))) = "dir") =>
               tui'.watchDir = Abs(ExpandHome(join(Tail(Typed), <<" ">>)))]_vars


-----------------------------------------------------------------------------
(***************************************************************************)
(* loadTar (main.go:1534-1586).  A tar file is what os.Open and the tar    *)
(* reader give for it: whether it opens, its entries, and whether the      *)
(* reader ends with io.EOF or with an error after the last entry.  An      *)
(* entry has a name, a type flag ("reg", "dir", or "bad" for a header the  *)
(* reader rejects), its data and whether io.ReadAll gets the data; after   *)
(* a failed read the reader keeps its error and Next returns it.  A        *)
(* Markdown text is a sequence of words and image references.              *)
(***************************************************************************)

Entry(name, typeflag, data, readable) ==
    [name |-> name, typeflag |-> typeflag, data |-> data, readable |-> readable]

ImageRef(filename) == [image |-> filename]

MarkdownEntry(word) ==
    Entry(<<"c", "o", "n", "t", "e", "n", "t", ".", "m", "d">>, "reg", << [word |-> word], ImageRef(<<"a", ".", "P", "N", "G">>) >>, TRUE)
ImageEntry(readable) == Entry(<<"i", "m", "a", "g", "e", "s", "/", "a", ".", "P", "N", "G">>, "reg", "bytes", readable)
DirEntry == Entry(<<"i", "m", "a", "g", "e", "s", "/">>, "dir", "", TRUE)
BadHeader == Entry(<<>>, "bad", "", TRUE)

TarFile(opens, entries, tailError) ==
    [opens |-> opens, entries |-> entries, tailError |-> tailError]

\* What a path can hold when loadTar opens it.
TarFiles ==
    { TarFile(FALSE, <<>>, FALSE),
      TarFile(TRUE, << MarkdownEntry("one"), DirEntry, ImageEntry(TRUE) >>, FALSE),
      TarFile(TRUE, << MarkdownEntry("two") >>, FALSE),
      TarFile(TRUE, << MarkdownEntry("cut"), ImageEntry(FALSE) >>, FALSE),
      TarFile(TRUE, << MarkdownEntry("torn"), BadHeader >>, TRUE) }

\* filepath.Base(path), filepath.Ext(name)
LastIndexOf(str, c) ==
    LET hits == { k \in 1..Len(str) : str[k] = c }
    IN  IF hits = {} THEN 0 ELSE CHOOSE k \in hits : \A j \in hits : j <= k

Base(path) == SubSeq(path, LastIndexOf(path, "/") + 1, Len(path))

Ext(name) ==
    IF LastIndexOf(name, ".") = 0 THEN <<>>
    ELSE SubSeq(name, LastIndexOf(name, "."), Len(name))

\* getMimeType (main.go:1588-1604)
getMimeType(filename) ==
    LET ext == toLowerCase(Ext(filename))
    IN  CASE ext = <<".", "p", "n", "g">> -> "image/png"
          [] ext \in { <<".", "j", "p", "g">>, <<".", "j", "p", "e", "g">> } -> "image/jpeg"
          [] ext = <<".", "g", "i", "f">> -> "image/gif"
          [] ext = <<".", "w", "e", "b", "p">> -> "image/webp"
          [] ext = <<".", "s", "v", "g">> -> "image/svg+xml"
          [] OTHER -> "application/octet-stream"

\* fmt.Sprintf("data:%s;base64,%s", mimeType, b64)
DataUrl(mimeType, data) == [mime |-> mimeType, base64 |-> data]

NoImageMap == [n \in {} |-> 0]

\* content := &Content{...} (main.go:1542-1547); done is history: the call
\* that built the value has read its file to io.EOF.
NewContent(path) ==
    [Markdown |-> <<>>, Images |-> NoImageMap, TarFile |-> Base(path),
     TarPath |-> path, done |-> FALSE]

\* One turn of loadTar's loop (main.go:1550-1579) at entry k of the file:
\* what tr.Next and io.ReadAll give.
NextStep(file, k) ==
    IF k > Len(file.entries) THEN (IF file.tailError THEN "error" ELSE "eof")
    ELSE IF file.entries[k].typeflag = "bad" THEN "error"
    ELSE IF k > 1 /\ file.entries[k - 1].typeflag = "reg"
                  /\ ~file.entries[k - 1].readable THEN "error"
    ELSE IF file.entries[k].typeflag = "dir" THEN "dir"
    ELSE IF ~file.entries[k].readable THEN "unreadable"
    ELSE "store"

\* main.go:1570-1578
StoreEntry(content, entry) ==
    IF entry.name = <<"c", "o", "n", "t", "e", "n", "t", ".", "m", "d">>
    THEN [content EXCEPT !.Markdown = entry.data]
    ELSE IF startsWith(entry.name, <<"i", "m", "a", "g", "e", "s", "/">>)
    THEN LET imgName == slice(entry.name, 7)
         IN  [content EXCEPT !.Images =
                 (imgName :> DataUrl(getMimeType(imgName), entry.data)) @@ @]
    ELSE content

\* loadTar's loop from entry k on, run to its end: the content and whether
\* the loop ended at io.EOF.
RECURSIVE ReadEntries(_, _, _)
ReadEntries(content, file, k) ==
    LET step == NextStep(file, k)
    IN  CASE step = "eof" -> [content EXCEPT !.done = TRUE]
          [] step = "error" -> content
          [] step = "store" -> ReadEntries(StoreEntry(content, file.entries[k]), file, k + 1)
          [] OTHER -> ReadEntries(content, file, k + 1)

\* loadTar(path) (main.go:1534-1586) run without interruption on a path
\* that holds file: the heap and currentContent after it.
loadTar(state, path, file) ==
    LET content == ReadEntries(NewContent(path), file, 1)
    IN  IF file.opens /\ content.done
        THEN [heap |-> Append(state.heap, content),
              currentContent |-> Len(state.heap) + 1]
        ELSE state

-----------------------------------------------------------------------------
(***************************************************************************)
(* watchDirectory (main.go:1477-1532).  Time is counted in quarters of a   *)
(* second; pending[path] is kept as the time since it was set, up to the   *)
(* first value greater than a second.                                      *)
(***************************************************************************)

MaxEvents == 3        \* file events the directory produces

TickPeriod == 2       \* time.NewTicker(500 * time.Millisecond)
OneSecond == 4        \* time.Second

EventPaths ==
    { <<"/", "w", "/", "l", "o", "o", "p", "_", "e", "x", "p", "o", "r", "t", "_", "1", ".", "t", "a", "r">>, <<"/", "w", "/", "P", "a", "g", "e", " ", "a", "t", " ", "1", ".", "3", "9", " ", "P", "M", ".", "t", "a", "r">>, <<"/", "w", "/", "n", "o", "t", "e", "s", ".", "t", "a", "r">>,
      <<"/", "w", "/", "l", "o", "o", "p", "_", "e", "x", "p", "o", "r", "t", "_", "1", ".", "m", "d">> }

EventOps == { { "Create" }, { "Write" }, { "Write", "Chmod" }, { "Remove" } }

\* main.go:1505-1507
isLoopExport(base) ==
    \/ startsWith(base, <<"l", "o", "o", "p", "_", "e", "x", "p", "o", "r", "t", "_">>)
    \/ startsWith(base, <<"L", "o", "o", "p", " ", "E", "x", "p", "o", "r", "t">>)
    \/ includes(base, <<" ", "a", "t", " ">>)

\* main.go:1501-1508
Accepted(name, op) ==
    /\ op \cap { "Create", "Write" } # {}
    /\ endsWith(name, <<".", "t", "a", "r">>)
    /\ isLoopExport(Base(name))

\* now.Sub(lastEvent) >= time.Second
ExpiredAtOneSecond(age) == age >= OneSecond

\* now.Sub(lastEvent) > time.Second (main.go:1524)
Expired(age) == age > OneSecond

\* fsnotify.NewWatcher and watcher.Add (main.go:1478-1488)
WatchStart ==
    /\ wpc = "start"
    /\ \E ok \in BOOLEAN : wpc' = IF ok THEN "running" ELSE "failed"
    /\ UNCHANGED <<watchPending, phase, tickDue, eventsLeft, eventSince, loaded>>
    /\ UNCHANGED <<nonViewerVars, tuiVars, contentVars>>

\* case event := <-watcher.Events (main.go:1497-1512)
FileEvent ==
    /\ wpc = "running"
    /\ eventsLeft > 0
    /\ eventsLeft' = eventsLeft - 1
    /\ \E name \in EventPaths, op \in EventOps :
          IF Accepted(name, op)
          THEN /\ watchPending' = (name :> 0) @@ watchPending
               /\ eventSince' =
                    (name :> (IF name \in DOMAIN eventSince
                              THEN eventSince[name] + 1 ELSE 1)) @@ eventSince
          ELSE UNCHANGED <<watchPending, eventSince>>
    /\ UNCHANGED <<wpc, phase, tickDue, loaded>>
    /\ UNCHANGED <<nonViewerVars, tuiVars, contentVars>>

\* A quarter of a second passes; the ticker fires every TickPeriod.
Advance ==
    /\ wpc = "running"
    /\ watchPending' = [p \in DOMAIN watchPending |->
                            IF Expired(watchPending[p]) THEN watchPending[p]
                            ELSE watchPending[p] + 1]
    /\ phase' = (phase + 1) % TickPeriod
    /\ tickDue' = (tickDue \/ phase' = 0)
    /\ UNCHANGED <<wpc, eventsLeft, eventSince, loaded>>
    /\ UNCHANGED <<nonViewerVars, tuiVars, contentVars>>

\* The paths of a set in the orders a range over a map can give them.
Orders(S) ==
    { order \in [1..Cardinality(S) -> S] :
        \A i, j \in 1..Cardinality(S) : i # j => order[i] # order[j] }

\* loadTar for each path of the order, one after the other
RECURSIVE LoadAll(_, _, _, _)
LoadAll(state, order, files, i) ==
    IF i > Len(order) THEN state
    ELSE LoadAll(loadTar(state, order[i], files[i]), order, files, i + 1)

\* case <-ticker.C (main.go:1520-1529)
Tick ==
    /\ wpc = "running"
    /\ tickDue
    /\ tickDue' = FALSE
    /\ LET due == { p \in DOMAIN watchPending : Expired(watchPending[p]) }
       IN  /\ watchPending' = [p \in DOMAIN watchPending \ due |-> watchPending[p]]
           /\ eventSince' = [p \in DOMAIN eventSince \ due |-> eventSince[p]]
           /\ \E order \in Orders(due) :
                 /\ loaded' = loaded \o [i \in 1..Len(order) |->
                                  [path |-> order[i], events |-> eventSince[order[i]]]]
                 /\ \E files \in [1..Len(order) -> TarFiles] :
                       LET after == LoadAll([heap |-> heap,
                                             currentContent |-> currentContent],
                                            order, files, 1)
                       IN  /\ heap' = after.heap
                           /\ currentContent' = after.currentContent
    /\ UNCHANGED <<wpc, phase, eventsLeft>>
    /\ UNCHANGED <<loaders, readers>>
    /\ UNCHANGED <<nonViewerVars, tuiVars>>

watchDirectory == WatchStart \/ FileEvent \/ Advance \/ Tick

InitWatch ==
    /\ nonViewerIdle
    /\ TuiIdle
    /\ ContentIdle
    /\ wpc = "start"
    /\ watchPending = [p \in {} |-> 0]
    /\ phase = 0
    /\ tickDue = FALSE
    /\ eventsLeft = MaxEvents
    /\ eventSince = [p \in {} |-> 0]
    /\ loaded = <<>>

SpecWatch == InitWatch /\ [][watchDirectory]_vars

\* Time passes, and a tick that waits is handled.
FairSpecWatch == SpecWatch /\ WF_vars(Advance) /\ WF_vars(Tick)

\* The loadTar calls the watcher has made for a path.
Loads(history, p) == SelectSeq(history, LAMBDA call : call.path = p)

-----------------------------------------------------------------------------
(***************************************************************************)
(* loadTar calls that run at the same time as each other and as the HTTP   *)
(* handlers (main.go:335, 553, 674, 1278, 1282, 1901-1919).  Each call has *)
(* its own content value; the statements between contentMu.Lock/RLock and  *)
(* the matching unlock are one step.                                       *)
(***************************************************************************)

NumLoaders == 2       \* loadTar calls
NumReaders == 1       \* requests for /content

IdleLoader == [pc |-> "idle"]
IdleReader == [pc |-> "idle"]

\* The pointer assigned to currentContent as far as the call has come:
\* every turn of the loop publishes.
PublishedEarly(l, step) == loaders[l].ptr

\* contentMu.Lock(); currentContent = content; contentMu.Unlock()
\* (main.go:1581-1583), reached after io.EOF only
Published(l, step) == IF step = "eof" THEN loaders[l].ptr ELSE currentContent

\* loadTar up to the reader (main.go:1534-1549)
LoadOpen(l) ==
    /\ loaders[l].pc = "idle"
    /\ \E path \in TarPaths, file \in TarFiles :
          IF ~file.opens
          THEN /\ loaders' = [loaders EXCEPT ![l] =
                                 [pc |-> "failed", path |-> path, file |-> file, k |-> 0]]
               /\ UNCHANGED heap
          ELSE /\ heap' = Append(heap, NewContent(path))
               /\ loaders' = [loaders EXCEPT ![l] =
                                 [pc |-> "reading", path |-> path, file |-> file,
                                  k |-> 1, ptr |-> Len(heap) + 1]]
    /\ UNCHANGED <<currentContent, readers>>
    /\ UNCHANGED <<nonViewerVars, tuiVars, watchVars>>

\* One turn of the loop, and what follows it (main.go:1550-1586)
LoadStep(l) ==
    /\ loaders[l].pc = "reading"
    /\ LET k == loaders[l].k
           ptr == loaders[l].ptr
           file == loaders[l].file
           step == NextStep(file, k)
       IN  /\ loaders' = [loaders EXCEPT
                 ![l].pc = CASE step = "eof" -> "done"
                             [] step = "error" -> "failed"
                             [] OTHER -> "reading",
                 ![l].k = IF step \in { "eof", "error" } THEN k ELSE k + 1]
           /\ heap' = [heap EXCEPT ![ptr] =
                 CASE step = "store" -> StoreEntry(@, file.entries[k])
                   [] step = "eof" -> [@ EXCEPT !.done = TRUE]
                   [] OTHER -> @]
           /\ currentContent' = Published(l, step)
    /\ UNCHANGED readers
    /\ UNCHANGED <<nonViewerVars, tuiVars, watchVars>>

\* strings.ReplaceAll(md, "images/"+filename, dataURL) for every image
\* (main.go:1912-1915)
Render(content) ==
    [i \in 1..Len(content.Markdown) |->
        LET token == content.Markdown[i]
        IN  IF "image" \in DOMAIN token /\ token.image \in DOMAIN content.Images
            THEN content.Images[token.image]
            ELSE token]

\* handleContent up to RUnlock (main.go:1901-1904)
ReadCurrent(r) ==
    /\ readers[r].pc = "idle"
    /\ readers' = [readers EXCEPT ![r] = [pc |-> "read", content |-> currentContent]]
    /\ UNCHANGED <<heap, currentContent, loaders>>
    /\ UNCHANGED <<nonViewerVars, tuiVars, watchVars>>

\* handleContent after RUnlock (main.go:1906-1918)
Respond(r) ==
    /\ readers[r].pc = "read"
    /\ readers' = [readers EXCEPT ![r] =
          [pc |-> "served", content |-> readers[r].content,
           response |-> IF readers[r].content = 0 THEN "404"
                        ELSE Render(heap[readers[r].content])]]
    /\ UNCHANGED <<heap, currentContent, loaders>>
    /\ UNCHANGED <<nonViewerVars, tuiVars, watchVars>>

NextContent ==
    \/ \E l \in 1..NumLoaders : LoadOpen(l) \/ LoadStep(l)
    \/ \E r \in 1..NumReaders : ReadCurrent(r) \/ Respond(r)

InitContent ==
    /\ nonViewerIdle
    /\ TuiIdle
    /\ WatchIdle
    /\ heap = <<>>
    /\ currentContent = 0
    /\ loaders = [l \in 1..NumLoaders |-> IdleLoader]
    /\ readers = [r \in 1..NumReaders |-> IdleReader]

SpecContent == InitContent /\ [][NextContent]_vars

\* The content is what one loadTar call makes of one file it reads to
\* io.EOF.
Whole(content) ==
    /\ content.done
    /\ \E file \in TarFiles :
          /\ file.opens
          /\ content = ReadEntries(NewContent(content.TarPath), file, 1)

\* C28: currentContent, and the value a reader took from it, is nil or a
\* Content that one loadTar call built from a file it read to io.EOF, and
\* the reader's response is made of that content; a loadTar call that fails
\* leaves currentContent as it was.
C28_PublishedWhole ==
    /\ [](/\ currentContent # 0 => Whole(heap[currentContent])
          /\ \A r \in 1..NumReaders :
                /\ (readers[r].pc # "idle" /\ readers[r].content # 0)
                      => Whole(heap[readers[r].content])
                /\ readers[r].pc = "served" =>
                      readers[r].response =
                         IF readers[r].content = 0 THEN "404"
                         ELSE Render(heap[readers[r].content]))
    /\ [][\A l \in 1..NumLoaders :
            (loaders'[l].pc # "done" \/ loaders[l].pc = "done")
               => (currentContent' # currentContent
                     => \E other \in 1..NumLoaders :
                           /\ other # l
                           /\ loaders[other].pc # "done"
                           /\ loaders'[other].pc = "done")]_vars

\* A reader took the content of a call that succeeded, another call then
\* failed in the middle of its file, and the reader was served.
C28_Witness ==
    /\ currentContent # 0
    /\ \E r \in 1..NumReaders :
          readers[r].pc = "served" /\ readers[r].content = currentContent
    /\ \E l \in 1..NumLoaders :
          /\ loaders[l].pc = "failed"
          /\ loaders[l].k > 1
          /\ loaders[l].ptr > currentContent


-----------------------------------------------------------------------------
(***************************************************************************)
(* parseMarkdown's while loop, one iteration at a time                     *)
(* (code.js:2859-2964), on texts that are not the serializer's.            *)
(***************************************************************************)

MaxLines == 3         \* lines of a text given to parseMarkdown

\* i++ without its effect
NoIncrement(i) == i

\* i++ at the end of the loop body (code.js:2963)
LoopIncrement(i) == i + 1

\* One iteration at line i: the entry pushed, if any, the last line that
\* went into it, and i for the next iteration.
Iteration(lines, i) ==
    LET t == trim(lines[i])
        d == HeadingDepth(t)
        Body(ast, last, at) == [ast |-> ast, last |-> last, next |-> LoopIncrement(at)]
    IN  IF t = <<>> THEN [ast |-> <<>>, last |-> i, next |-> i + 1]
        ELSE IF d > 0
        THEN Body(<< [type |-> HeadingType(d), content |-> trim(slice(t, d + 1))] >>, i, i)
        ELSE IF startsWith(t, QuoteLit)
        THEN LET j == RunEnd(lines, i, LAMBDA l : startsWith(trim(l), QuoteLit))
                 quoteLines == [k \in 1..(j - i) |->
                                    trim(slice(trim(lines[i + k - 1]), 2))]
             IN  Body(<< [type |-> "blockquote", content |-> join(quoteLines, <<"\n">>)] >>,
                      j - 1, j - 1)
        ELSE IF \E b \in Bullets : startsWith(t, b)
        THEN Body(<< [type |-> "li", content |-> trim(slice(t, 2))] >>, i, i)
        ELSE IF IsOrderedItem(t)
        THEN LET k == SkipIn(t, 1, Digits)
             IN  Body(<< [type |-> "ol", index |-> parseInt(SubSeq(t, 1, k - 1)),
                          content |-> trim(slice(t, k + 1))] >>, i, i)
        ELSE IF startsWith(t, FenceLit)
        THEN LET j == RunEnd(lines, i + 1,
                             LAMBDA l : ~startsWith(trim(l), FenceLit))
             IN  Body(<< [type |-> "code",
                          content |-> join(SubSeq(lines, i + 1, j - 1), <<"\n">>),
                          language |-> trim(slice(t, 3))] >>,
                      IF j > Len(lines) THEN Len(lines) ELSE j, j)
        ELSE IF IsTableLine(t)
        THEN LET j == RunEnd(lines, i, LAMBDA l : IsTableLine(trim(l)))
                 table == TableFrom(lines, i, j,
                             [type |-> "table", rows |-> <<>>,
                              alignments |-> <<>>, hasHeader |-> FALSE])
             IN  Body(IF Len(table.rows) > 0 THEN <<table>> ELSE <<>>, j - 1, j - 1)
        ELSE IF ImageAltEnd(t) > 0
        THEN Body(<< [type |-> "image",
                      alt |-> SubSeq(t, 3, ImageAltEnd(t) - 1),
                      path |-> SubSeq(t, ImageAltEnd(t) + 2, Len(t) - 1)] >>, i, i)
        ELSE Body(<< [type |-> "p", content |-> t] >>, i, i)

\* Lines as somebody writes them.
ParseLines ==
    { <<>>, <<"x">>, <<"#", " ", "h">>, <<">", " ", "q">>, <<">">>, <<"-", " ", "i">>, <<"1", ".", " ", "o">>, FenceLit,
      FenceLit \o <<"j", "s">>, <<"|">>, <<"|", " ", "a", " ", "|">>, <<"|", "-", "-", "-", "|">>, <<"!", "[", "a", "]", "(", "b", ")">> }

ParseTexts ==
    { join(lines, <<"\n">>) :
        lines \in UNION { [1..n -> ParseLines] : n \in 1..MaxLines } }

\* The iterations the loop can make on each text, by line index.
Iterations ==
    [text \in ParseTexts |->
        LET lines == split(text, "\n")
        IN  [i \in 1..Len(lines) |-> Iteration(lines, i)]]

\* The iteration the loop is about to make.
ParseDone == lineIndex > Len(Iterations[rtMarkdown])
Turn == Iterations[rtMarkdown][lineIndex]

\* while (i < lines.length) { ... } (code.js:2859-2964)
ParseLine ==
    /\ rtpc = "parsing"
    /\ rtpc' = IF ParseDone THEN "parsed" ELSE rtpc
    /\ rtAst' = IF ParseDone THEN rtAst ELSE rtAst \o Turn.ast
    /\ consumed' = IF ParseDone THEN consumed
                   ELSE consumed \o [k \in 1..Len(Turn.ast) |->
                                        [first |-> lineIndex, last |-> Turn.last]]
    /\ lineIndex' = IF ParseDone THEN lineIndex ELSE Turn.next
    /\ UNCHANGED <<rtTree, rtMarkdown>>
    /\ UNCHANGED nonRoundVars

InitParse ==
    /\ DomIdle
    /\ ExpandIdle
    /\ CleanupIdle
    /\ ExportIdle
    /\ ViewerIdle
    /\ rtTree = [type |-> "root", children |-> <<>>]
    /\ rtMarkdown \in ParseTexts
    /\ rtAst = <<>>
    /\ rtpc = "parsing"
    /\ lineIndex = 1
    /\ consumed = <<>>

SpecParse == InitParse /\ [][ParseLine]_vars

\* The loop is not held up.
FairSpecParse == SpecParse /\ WF_vars(ParseLine)

\* C29: parseMarkdown terminates on every text; every iteration of its loop
\* moves the line index forward by at least one; no line goes into two
\* entries of the result, and the entries are in the order of their lines.
C29_ParseTerminates ==
    /\ <>(rtpc = "parsed")
    /\ [][rtpc' = "parsing" => lineIndex' >= lineIndex + 1]_vars
    /\ [](/\ Len(consumed) = Len(rtAst)
          /\ \A k \in 1..Len(consumed) :
                /\ consumed[k].first <= consumed[k].last
                /\ consumed[k].last < lineIndex
                /\ k > 1 => consumed[k - 1].last < consumed[k].first
          /\ rtpc = "parsed" => rtAst = parseMarkdown(rtMarkdown))

\* An unterminated fence after a quoted line and a lone bar has been parsed
\* to its end.
C29_Witness ==
    /\ rtpc = "parsed"
    /\ rtMarkdown = <<">", " ", "q">> \o <<"\n">> \o <<"|">> \o <<"\n">> \o FenceLit
    /\ Len(rtAst) = 3


-----------------------------------------------------------------------------
(***************************************************************************)
(* Task items (part_001:848-859).  Loop marks a task by a class on the     *)
(* element; the element stands in a list, as an item of it or not, or      *)
(* outside every list: in the page, a paragraph, a blockquote, a plain     *)
(* element or another task.                                                *)
(***************************************************************************)

TaskClasses == { <<"s", "c", "r", "i", "p", "t", "o", "r", "-", "t", "a", "s", "k", "I", "t", "e", "m">>, <<"s", "c", "r", "i", "p", "t", "o", "r", "-", "c", "h", "e", "c", "k", "b", "o", "x">> }

Checkbox(checked) ==
    Element("input",
            IF checked THEN [class |-> <<>>, type |-> <<"c", "h", "e", "c", "k", "b", "o", "x">>, checked |-> <<>>]
            ELSE [class |-> <<>>, type |-> <<"c", "h", "e", "c", "k", "b", "o", "x">>],
            <<>>)

\* How a task shows its state: not at all, by aria-checked, by a checkbox.
TaskStates == { "none", "aria", "box", "checkedBox" }

TaskElement(tag, class, state) ==
    Element(tag,
            IF state = "aria" THEN ("aria-checked" :> TrueLit) @@ [class |-> class]
            ELSE [class |-> class],
            (IF state \in { "box", "checkedBox" }
             THEN << Checkbox(state = "checkedBox") >> ELSE <<>>)
            \o << TextDom(<<"d", "o">>) >>)

TaskElements ==
    { TaskElement(tag, class, state) :
        tag \in { "div", "li" }, class \in TaskClasses, state \in TaskStates }

TaskContexts(t) ==
    { << Element("p", NoAttrs, << TextDom(<<"a">>) >>), t >>,
      << Element("p", NoAttrs, << TextDom(<<"a">>), t >>) >>,
      << Element("blockquote", NoAttrs, << t >>) >>,
      << Element("ul", NoAttrs, << t >>) >>,
      << Element("div", NoAttrs, << TextDom(<<"a">>), t >>) >>,
      << TaskElement("div", <<"s", "c", "r", "i", "p", "t", "o", "r", "-", "t", "a", "s", "k", "I", "t", "e", "m">>, "none"), t >> }

TaskPages == { Div(ctx) : ctx \in UNION { TaskContexts(t) : t \in TaskElements } }

InitTasks == InitDom(TaskPages)
SpecTasks == InitTasks /\ [][NextDom]_vars

\* C30: in the tree the converter builds, every listItem is a child of a
\* list: no paragraph, blockquote, root or other node that is not a list has
\* a listItem among its children.
C30_ListItemsUnderLists ==
    dpc = "converted"
        => \A n \in NodesOf(out) :
              HasChildren(n) /\ n.type # "list"
                  => \A k \in 1..Len(n.children) : n.children[k].type # "listItem"

====
